---- MODULE Spec2Model ----
(***************************************************************************)
(* A model of the dependency-graph engine and the matching-loop analysis   *)
(* of axiom-profiler-2 (smt-log-parser).                                   *)
(*                                                                         *)
(* The specifications share the variables:                                 *)
(*   SpecSub      partitions an arbitrary raw DAG into subgraphs           *)
(*                (Subgraph::new, subgraph.rs);                            *)
(*   Spec         runs the matching-loop search and its queries on a       *)
(*                loaded log (matching_loop.rs);                           *)
(*   SpecEnabled  resets the disabled mask and reruns the NextEnabled      *)
(*                analysis (next_enabled.rs), after the NextInsts pass     *)
(*                (next_insts.rs);                                         *)
(*   SpecFilters  applies filter stacks to a loaded log                    *)
(*                (graph_filters.rs);                                      *)
(*   SpecParse    feeds lines to LogParser::process_line (z3/mod.rs);      *)
(*   SpecBlame    splits blamed sequences with Match::trigger_matches      *)
(*                (instantiation.rs).                                      *)
(***************************************************************************)
EXTENDS Integers, Sequences, FiniteSets, TLC

VARIABLES
    \* ---- subgraph partitioning (SpecSub) ----
    graph,          \* set of directed edges <<u, v>> of the generic raw DAG
    discovered,     \* VisitBox.dfs: the visit map threaded through Subgraph::new
    subgraphs,      \* sequence of Subgraph {nodes, reach_fwd, reach_bwd}
    node_ix,        \* per node: <<subgraph id, local index>> written by `f`, <<>> before
    \* ---- matching-loop analysis (Spec) ----
    log,            \* the loaded parser model (immutable after load)
    hash_order,     \* the walk of the FxHashSet of nodes of each loop
    disabled,       \* Node.disabled of every raw node
    hidden,         \* Node.hidden of every raw node (visible = ~hidden)
    part_of_ml,     \* Node.part_of_ml of every raw node
    ml_end_nodes,   \* analysis.matching_loop_end_nodes (<<>> = None, <<l>> = Some(l))
    ml_graphs,      \* analysis.matching_loop_graphs
    status,         \* "idle" | "aborted" (a panic unwound out of the analysis)
    ret,            \* what the last operation returned
    \* ---- NextEnabled analysis (SpecEnabled) ----
    next_enabled,   \* Node.enabled_parents / Node.enabled_children of every raw node
    \* ---- filters (SpecFilters) ----
    applied,        \* the filter stack applied last and the FilterOutputs it gave
    \* ---- log parsing (SpecParse) ----
    parse_state     \* what process_line has dispatched and reported so far

vars == <<graph, discovered, subgraphs, node_ix, log, hash_order, disabled, hidden,
          part_of_ml, ml_end_nodes, ml_graphs, status, ret,
          next_enabled, applied, parse_state>>

(***************************************************************************)
(* Bounds                                                                  *)
(***************************************************************************)
\* number of nodes of the generic raw DAG partitioned under SpecSub
SubN == 4
\* largest number of instantiations of an exhaustively enumerated log
MaxInsts == 4
\* number of lines fed to process_line
MaxLines == 3
\* longest blamed sequence split under SpecBlame
MaxBlamed == 4

(***************************************************************************)
(* Generic helpers                                                         *)
(***************************************************************************)
Max(S) == CHOOSE m \in S : \A x \in S : x <= m
Min(S) == CHOOSE m \in S : \A x \in S : m <= x

RECURSIVE SetToSeqDesc(_)
SetToSeqDesc(S) ==
    IF S = {} THEN <<>> ELSE LET m == Max(S) IN <<m>> \o SetToSeqDesc(S \ {m})

Front(s) == SubSeq(s, 1, Len(s) - 1)
Range(s) == {s[i] : i \in DOMAIN s}

(***************************************************************************)
(* petgraph adjacency.  Edges are taken to have been added in              *)
(* lexicographic order of (source, target); petgraph walks an adjacency    *)
(* list from the most recently added edge to the oldest.                   *)
(***************************************************************************)
Children(E, a) == {e[2] : e \in {x \in E : x[1] = a}}
Parents(E, a) == {e[1] : e \in {x \in E : x[2] = a}}
\* graph.neighbors_directed(a, Outgoing)
OutNbrs(E, a) == SetToSeqDesc(Children(E, a))
\* graph.neighbors_directed(a, Incoming)
InNbrs(E, a) == SetToSeqDesc(Parents(E, a))
\* neighbors(a) of the graph viewed as Undirected: outgoing list, then incoming
UnNbrs(E, a) == OutNbrs(E, a) \o InNbrs(E, a)

(***************************************************************************)
(* Subgraph::new, part 1: undirected DFS from `node` over the not yet      *)
(* discovered nodes, collecting the nodes without parents (start_nodes).   *)
(***************************************************************************)
\* mutant: the walk follows outgoing edges only (graph not made Undirected)
RECURSIVE DfsWalkDirected(_, _, _, _)
DfsWalkDirected(E, stack, disc, starts) ==
    IF stack = <<>> THEN [disc |-> disc, starts |-> starts]
    ELSE LET node == stack[Len(stack)]
             rest == Front(stack)
         IN IF node \in disc THEN DfsWalkDirected(E, rest, disc, starts)
            ELSE LET disc2 == disc \cup {node}
                     push == SelectSeq(OutNbrs(E, node), LAMBDA s : s \notin disc2)
                     starts2 == IF Parents(E, node) = {} THEN Append(starts, node)
                                ELSE starts
                 IN DfsWalkDirected(E, rest \o push, disc2, starts2)

RECURSIVE DfsWalk(_, _, _, _)
DfsWalk(E, stack, disc, starts) ==
    IF stack = <<>> THEN [disc |-> disc, starts |-> starts]
    ELSE LET node == stack[Len(stack)]              \* Vec::pop
             rest == Front(stack)
         IN IF node \in disc THEN DfsWalk(E, rest, disc, starts)
            ELSE LET disc2 == disc \cup {node}      \* discovered.visit(node)
                     push == SelectSeq(UnNbrs(E, node), LAMBDA s : s \notin disc2)
                     starts2 == IF Parents(E, node) = {} THEN Append(starts, node)
                                ELSE starts
                 IN DfsWalk(E, rest \o push, disc2, starts2)

(***************************************************************************)
(* Subgraph::new, part 2: petgraph::visit::Topo over SubgraphStartNodes.   *)
(* `tovisit` starts as start_nodes (none has an incoming edge); a          *)
(* neighbour is pushed once all its parents are ordered.                   *)
(***************************************************************************)
\* mutant: a neighbour is pushed as soon as one of its parents is ordered
RECURSIVE TopoWalkEager(_, _, _, _)
TopoWalkEager(E, tovisit, ordered, nodes) ==
    IF tovisit = <<>> THEN nodes
    ELSE LET nix == tovisit[Len(tovisit)]
             rest == Front(tovisit)
         IN IF nix \in ordered THEN TopoWalkEager(E, rest, ordered, nodes)
            ELSE LET ord2 == ordered \cup {nix}
                     push == SelectSeq(OutNbrs(E, nix), LAMBDA n : n \notin ord2)
                 IN TopoWalkEager(E, rest \o push, ord2, Append(nodes, nix))

RECURSIVE TopoWalk(_, _, _, _)
TopoWalk(E, tovisit, ordered, nodes) ==
    IF tovisit = <<>> THEN nodes
    ELSE LET nix == tovisit[Len(tovisit)]
             rest == Front(tovisit)
         IN IF nix \in ordered THEN TopoWalk(E, rest, ordered, nodes)
            ELSE LET ord2 == ordered \cup {nix}
                     push == SelectSeq(OutNbrs(E, nix),
                                 LAMBDA n : Parents(E, n) \subseteq ord2)
                 IN TopoWalk(E, rest \o push, ord2, Append(nodes, nix))

\* the local index `f` wrote on a node of `nodes` (count, 0-based): what `c`
\* reads; -1 stands for a node that `f` has not numbered
LocalIx(nodes, v) ==
    IF \E i \in DOMAIN nodes : nodes[i] = v
    THEN (CHOOSE i \in DOMAIN nodes : nodes[i] = v) - 1
    ELSE -1

(***************************************************************************)
(* Subgraph::new, part 3: the transitive closures.  A closure is a record  *)
(* [ok, rows]: rows[i + 1] is the bitmap of local index i; ok is FALSE     *)
(* when an index fell outside the remaining slice (the code panics).       *)
(***************************************************************************)
OrInto(rows, targets, curr) ==
    [j \in DOMAIN rows |-> IF (j - 1) \in targets THEN rows[j] \cup curr ELSE rows[j]]

\* mutant: `curr.insert(idx)` is forgotten
RECURSIVE ReachFwdNoSelf(_, _, _, _)
ReachFwdNoSelf(E, nodes, idx, cl) ==
    IF idx < 0 \/ ~cl.ok THEN cl
    ELSE LET curr == cl.rows[idx + 1]
             ps == {LocalIx(nodes, p) : p \in Parents(E, nodes[idx + 1])}
         IN ReachFwdNoSelf(E, nodes, idx - 1,
                [ok |-> \A p \in ps : 0 <= p /\ p < idx, rows |-> OrInto(cl.rows, ps, curr)])

RECURSIVE ReachFwdLoop(_, _, _, _)
ReachFwdLoop(E, nodes, idx, cl) ==
    IF idx < 0 \/ ~cl.ok THEN cl
    ELSE LET curr == cl.rows[idx + 1] \cup {idx}                 \* curr.insert(idx)
             rows1 == [cl.rows EXCEPT ![idx + 1] = curr]
             ps == {LocalIx(nodes, p) : p \in Parents(E, nodes[idx + 1])}
         IN ReachFwdLoop(E, nodes, idx - 1,
                \* reach_fwd[parent] indexes `others`, the rows before idx
                [ok |-> \A p \in ps : 0 <= p /\ p < idx, rows |-> OrInto(rows1, ps, curr)])

\* mutant: a row is or-ed into the first child only
RECURSIVE ReachBwdFirstChild(_, _, _, _)
ReachBwdFirstChild(E, nodes, idx, cl) ==
    IF idx >= Len(nodes) \/ ~cl.ok THEN cl
    ELSE LET curr == cl.rows[idx + 1] \cup {idx}
             rows1 == [cl.rows EXCEPT ![idx + 1] = curr]
             all == {LocalIx(nodes, c) : c \in Children(E, nodes[idx + 1])}
             cs == IF all = {} THEN {} ELSE {Min(all)}
         IN ReachBwdFirstChild(E, nodes, idx + 1,
                [ok |-> \A c \in cs : idx < c /\ c < Len(nodes), rows |-> OrInto(rows1, cs, curr)])

RECURSIVE ReachBwdLoop(_, _, _, _)
ReachBwdLoop(E, nodes, idx, cl) ==
    IF idx >= Len(nodes) \/ ~cl.ok THEN cl
    ELSE LET curr == cl.rows[idx + 1] \cup {idx}                 \* curr.insert(idx)
             rows1 == [cl.rows EXCEPT ![idx + 1] = curr]
             cs == {LocalIx(nodes, c) : c \in Children(E, nodes[idx + 1])}
         IN ReachBwdLoop(E, nodes, idx + 1,
                \* reach_bwd[child - idx - 1] indexes `others`, the rows after idx
                [ok |-> \A c \in cs : idx < c /\ c < Len(nodes), rows |-> OrInto(rows1, cs, curr)])

EmptyRows(n) == [i \in 1..n |-> {}]

SubgraphDfs(E, node, disc) == DfsWalk(E, <<node>>, disc, <<>>)
SubgraphTopo(E, starts) == TopoWalk(E, starts, {}, <<>>)
SubgraphReachFwd(E, nodes) ==
    ReachFwdLoop(E, nodes, Len(nodes) - 1, [ok |-> TRUE, rows |-> EmptyRows(Len(nodes))])
SubgraphReachBwd(E, nodes) ==
    ReachBwdLoop(E, nodes, 0, [ok |-> TRUE, rows |-> EmptyRows(Len(nodes))])

\* TransitiveClosure::in_transitive_closure
InTransitiveClosure(cl, from, to) == to \in cl.rows[from + 1]

(***************************************************************************)
(* SpecSub: partitioning a raw DAG (the caller of Subgraph::new)           *)
(***************************************************************************)
SubNodes == 1..SubN

\* node numberings under which the drawn edges run from low to high position
SubPerms ==
    { [i \in SubNodes |-> i],
      [i \in SubNodes |-> SubN + 1 - i],
      [i \in SubNodes |-> (i % SubN) + 1],
      [i \in SubNodes |-> IF i % 2 = 1 THEN (i + 1) \div 2 ELSE SubN + 1 - (i \div 2)] }

\* the raw graph is a DAG without self-loops
SubGraphs ==
    { {<<p[e[1]], p[e[2]]>> : e \in F} :
        p \in SubPerms,
        F \in SUBSET {e \in SubNodes \X SubNodes : e[1] < e[2]} }

NoGraph == [nodes |-> {}, edges |-> {}]
NoRet == [op |-> "init", n |-> -1, g |-> NoGraph]
\* no analysis pass has run, no filter was applied, no line was read
NoNextEnabled == [parents |-> <<>>, children |-> <<>>]
NoFilters == [filters |-> <<>>, outputs |-> <<>>]
NoLines ==
    [lines |-> 0, line |-> <<>>, calls |-> 0, last |-> "", parse |-> "",
     reported |-> 0, continue |-> TRUE]
EmptyLog ==
    [n |-> 0, kind |-> <<>>, m_quant |-> <<>>, m_pattern |-> <<>>, blamed |-> <<>>,
     created_by |-> <<>>, owner |-> <<>>, eq_from |-> <<>>, eq_to |-> <<>>,
     eq_creators |-> <<>>, arity |-> <<>>, order |-> <<>>, raw_edges |-> {},
     no_depth |-> {}]

SubInit ==
    /\ graph \in SubGraphs
    /\ discovered = {}
    /\ subgraphs = <<>>
    /\ node_ix = [v \in SubNodes |-> <<>>]
    /\ log = EmptyLog
    /\ hash_order = <<>>
    /\ disabled = <<>>
    /\ hidden = <<>>
    /\ part_of_ml = <<>>
    /\ ml_end_nodes = <<>>
    /\ ml_graphs = <<>>
    /\ status = "idle"
    /\ ret = NoRet
    /\ next_enabled = NoNextEnabled
    /\ applied = NoFilters
    /\ parse_state = NoLines

\* one call of Subgraph::new(node, graph, visit, f, c) for a node the visit map
\* has not discovered; `f` records (subgraph id, local index) on the node
NewSubgraph(node) ==
    /\ status = "idle"
    /\ node \in SubNodes \ discovered
    /\ LET d == SubgraphDfs(graph, node, discovered)
           nodes == SubgraphTopo(graph, d.starts)
           fwd == SubgraphReachFwd(graph, nodes)
           bwd == SubgraphReachBwd(graph, nodes)
           sg == Len(subgraphs)
       IN /\ discovered' = d.disc
          /\ node_ix' = [v \in SubNodes |->
                            IF v \in Range(nodes) THEN <<sg, LocalIx(nodes, v)>>
                            ELSE node_ix[v]]
          /\ IF fwd.ok /\ bwd.ok
             THEN /\ subgraphs' = Append(subgraphs,
                        [nodes |-> nodes, reach_fwd |-> fwd, reach_bwd |-> bwd])
                  /\ status' = "idle"
             ELSE /\ subgraphs' = subgraphs
                  /\ status' = "aborted"
    /\ UNCHANGED <<graph, log, hash_order, disabled, hidden, part_of_ml,
                   ml_end_nodes, ml_graphs, ret, next_enabled, applied, parse_state>>

SubNext == \E node \in SubNodes : NewSubgraph(node)

SpecSub == SubInit /\ [][SubNext]_vars

(***************************************************************************)
(* The parser model read by the matching-loop analysis.                    *)
(*   log.n                 number of instantiations (InstIdx 1..n)         *)
(*   log.kind[i]           variant of the MatchKind of instantiation i     *)
(*   log.m_quant[i], log.m_pattern[i]   its quantifier and pattern         *)
(*   log.blamed[i]         Match.blamed: sequence of [tag, id]             *)
(*   log.created_by[e], log.owner[e]    of e-node e (None: no creator)     *)
(*   log.eq_from/eq_to/eq_creators      of transitive equality k           *)
(*   log.arity[p]          number of children of pattern p                 *)
(*   log.order             the raw nodes in emission order                 *)
(*   log.raw_edges         the edges of the raw graph built at load        *)
(*   log.no_depth          the instantiations whose NodeData.min_depth is  *)
(*                         None: the minDepth pass has not reached them    *)
(***************************************************************************)
\* Option::None of an index
None == 0

\* pub const MIN_MATCHING_LOOP_LENGTH: usize = 3
MIN_MATCHING_LOOP_LENGTH == 3

\* MatchKind::quant_idx, of the match of instantiation i
quant_idx(l, i) ==
    IF l.kind[i] \in {"MBQI", "Axiom", "Quantifier"} THEN l.m_quant[i] ELSE None

\* MatchKind::pattern, of the match of instantiation i
pattern(l, i) ==
    IF l.kind[i] \in {"MBQI", "TheorySolving"} THEN None ELSE l.m_pattern[i]

\* mutant: the first index is not skipped, every slice ends where it should
\* start
trigger_matches_noskip(blamed) ==
    LET terms == SelectSeq([k \in 1..Len(blamed) |-> k - 1],
                           LAMBDA idx : blamed[idx + 1].tag = "Term")
                 \o <<Len(blamed)>>
    IN [k \in 1..Len(terms) |->
            [from |-> IF k = 1 THEN 0 ELSE terms[k - 1], to |-> terms[k]]]

\* Match::trigger_matches: the slices of `blamed` (0-based [from, to) pairs)
\* that run from one Term entry up to the next, the first one from index 0
trigger_matches(blamed) ==
    LET terms == SelectSeq([k \in 1..Len(blamed) |-> k - 1],
                           LAMBDA idx : blamed[idx + 1].tag = "Term")
                 \o <<Len(blamed)>>
    IN [k \in 1..(Len(terms) - 1) |->
            [from |-> IF k = 1 THEN 0 ELSE terms[k], to |-> terms[k + 1]]]

\* the BlameKind entries of a Blame slice
BlameSlice(blamed, sl) == SubSeq(blamed, sl.from + 1, sl.to)

\* Blame::enode panics unless the slice starts with a Term; Blame::equalities
\* panics unless every later entry is an Equality
BlameOk(slice) ==
    /\ slice # <<>>
    /\ slice[1].tag = "Term"
    /\ \A k \in 2..Len(slice) : slice[k].tag = "Equality"

\* Blame::enode
BlameENode(slice) == slice[1].id
\* Blame::equalities
BlameEqualities(slice) == [k \in 1..(Len(slice) - 1) |-> slice[k + 1].id]

(***************************************************************************)
(* Terms are chains of unary applications over one constant: path lists    *)
(* the head symbols from the root down; an open term ends in a             *)
(* generalisation variable.                                                *)
(***************************************************************************)
Term(path, open) == [path |-> path, open |-> open]
RootTerm == Term(<<0>>, FALSE)

RECURSIVE CommonPrefix(_, _)
CommonPrefix(a, b) ==
    IF a = <<>> \/ b = <<>> \/ a[1] # b[1] THEN <<>>
    ELSE <<a[1]>> \o CommonPrefix(Tail(a), Tail(b))

\* terms.generalise of two terms: their anti-unifier
generalise(t1, t2) ==
    IF t1 = t2 THEN t1 ELSE Term(CommonPrefix(t1.path, t2.path), TRUE)

\* terms.generalise_pattern: the pattern with its bound variables generalised
generalise_pattern(p) == Term(<<p>>, TRUE)

(***************************************************************************)
(* The raw graph of a log.  Raw nodes are <<"I", i>> (Instantiation),      *)
(* <<"E", e>> (ENode) and <<"Q", k>> (equality); one node per event, in    *)
(* emission order.  Edges: yields-enode, term blame, equality blame, and   *)
(* from the creating instantiations to an equality.                        *)
(***************************************************************************)
RawInst(i) == <<"I", i>>
RawENode(e) == <<"E", e>>
RawEq(k) == <<"Q", k>>
IsInst(v) == v[1] = "I"

RawNodes(l) == Range(l.order)

\* RawNodeIndex of a raw node: its position in emission order
RawIx(l, v) == (CHOOSE k \in DOMAIN l.order : l.order[k] = v) - 1

\* the raw node of a BlameKind entry
BlamedNode(b) == IF b.tag = "Term" THEN RawENode(b.id) ELSE RawEq(b.id)

\* the edges added at load: yields-enode, blame, and creator-to-equality
RawEdgesOf(blamed, created_by, eq_creators) ==
    {<<RawInst(created_by[e]), RawENode(e)>> :
        e \in {x \in DOMAIN created_by : created_by[x] # None}}
    \cup UNION {{<<BlamedNode(blamed[i][k]), RawInst(i)>> : k \in DOMAIN blamed[i]} :
                    i \in DOMAIN blamed}
    \cup UNION {{<<RawInst(c), RawEq(k)>> : c \in Range(eq_creators[k]) \ {None}} :
                    k \in DOMAIN eq_creators}

RawEdges(l) == l.raw_edges

\* InstGraph::disabled_nodes
disabled_nodes(l, dis) == {v \in RawNodes(l) : dis[v]}

\* mutant: the predicate is asked of the instantiation nodes only, every
\* other node is enabled
reset_disabled_to_insts(l, f) == [v \in RawNodes(l) |-> IsInst(v) /\ v \in f]

\* InstGraph::reset_disabled_to(f): disabled(v) := f(v) for every raw node;
\* the predicate f is given as the set of raw nodes it holds of
reset_disabled_to(l, f) == [v \in RawNodes(l) |-> v \in f]

\* RawInstGraph::reset_visibility_to(hidden)
reset_visibility_to(l, h) == [v \in RawNodes(l) |-> h]

\* RawInstGraph::set_visibility_when(hidden, f), f given as a set likewise
set_visibility_when(l, hid, h, f) ==
    [v \in RawNodes(l) |-> IF v \in f THEN h ELSE hid[v]]

\* RawInstGraph::set_visibility_many(hidden, nodes)
set_visibility_many(l, hid, h, nodes) ==
    [v \in RawNodes(l) |-> IF v \in nodes THEN h ELSE hid[v]]

(***************************************************************************)
(* NextEnabled.  DefaultNextEnabled::transfer emits the node itself when   *)
(* it is enabled and hands on the node's own set otherwise; the sets of a  *)
(* node are the union of what its neighbours transfer.                     *)
(***************************************************************************)
\* mutant: transfer emits the neighbour whether it is disabled or not
enabled_children_direct(l, dis, v) == Children(RawEdges(l), v)

RECURSIVE enabled_children(_, _, _)
enabled_children(l, dis, v) ==
    UNION {IF ~dis[c] THEN {c} ELSE enabled_children(l, dis, c) :
              c \in Children(RawEdges(l), v)}

RECURSIVE enabled_parents(_, _, _)
enabled_parents(l, dis, v) ==
    UNION {IF ~dis[p] THEN {p} ELSE enabled_parents(l, dis, p) :
              p \in Parents(RawEdges(l), v)}

(***************************************************************************)
(* NextInsts.  DefaultNextInsts::transfer emits the InstIdx of an          *)
(* instantiation node and hands on the set of any other node.              *)
(***************************************************************************)
RECURSIVE inst_children(_, _)
inst_children(l, v) ==
    UNION {IF IsInst(c) THEN {c[2]} ELSE inst_children(l, c) :
              c \in Children(RawEdges(l), v)}

\* mutant: the set of a parent that is no instantiation is not handed on
inst_parents_direct(l, v) == {p[2] : p \in {x \in Parents(RawEdges(l), v) : IsInst(x)}}

RECURSIVE inst_parents(_, _)
inst_parents(l, v) ==
    UNION {IF IsInst(p) THEN {p[2]} ELSE inst_parents(l, p) :
              p \in Parents(RawEdges(l), v)}

\* one NextEnabled pass in each direction over the whole raw graph: the two
\* sets of every node
NextEnabledPass(l, dis) ==
    [parents |-> [v \in RawNodes(l) |-> enabled_parents(l, dis, v)],
     children |-> [v \in RawNodes(l) |-> enabled_children(l, dis, v)]]

(***************************************************************************)
(* The visible graph: its nodes are the raw nodes that are not hidden, in  *)
(* raw-index order; an edge u -> x stands for a raw edge u -> x, or for a  *)
(* raw edge u -> w to a hidden w of which x is a next enabled descendant.  *)
(***************************************************************************)
\* the visible nodes a visible node u gets an edge to
VisibleTargets(l, dis, hid, u) ==
    {x \in UNION {IF ~hid[w] THEN {w} ELSE enabled_children(l, dis, w) :
                     w \in Children(RawEdges(l), u)} : ~hid[x]}

to_visible_simplified(l, dis, hid) ==
    LET vis == {v \in RawNodes(l) : ~hid[v]}
    IN [nodes |-> SelectSeq(l.order, LAMBDA v : v \in vis),
        edges |-> UNION {{<<u, x>> : x \in VisibleTargets(l, dis, hid, u)} : u \in vis}]

\* compute_longest_distances_from_roots: max_depth of a node of a visible graph
RECURSIVE max_depth(_, _)
max_depth(E, v) ==
    IF Parents(E, v) = {} THEN 0
    ELSE 1 + Max({max_depth(E, p) : p \in Parents(E, v)})

\* VisibleInstGraph::find_end_nodes_of_longest_paths
find_end_nodes_of_longest_paths(vg) ==
    {v \in Range(vg.nodes) :
        /\ Children(vg.edges, v) = {}
        /\ max_depth(vg.edges, v) + 1 >= MIN_MATCHING_LOOP_LENGTH}

(***************************************************************************)
(* search_matching_loops: the matching-loop subgraph and its end nodes     *)
(***************************************************************************)
\* the quantifiers of the instantiations
quants(l) == {quant_idx(l, i) : i \in 1..l.n} \ {None}

\* one round of the loop over `quants`: hide everything, unhide the
\* instantiations of `quant`, take the end nodes of the longest paths
matching_loops_of_quant(l, dis, quant) ==
    LET h0 == reset_visibility_to(l, TRUE)
        h1 == set_visibility_when(l, h0, FALSE,
                  {v \in RawNodes(l) : IsInst(v) /\ quant_idx(l, v[2]) = quant})
    IN find_end_nodes_of_longest_paths(to_visible_simplified(l, dis, h1))

ml_nodes(l, dis) == UNION {matching_loops_of_quant(l, dis, q) : q \in quants(l)}

\* mutant: the loop nodes are not shown again after the reset
ml_hidden_all(l, dis) == reset_visibility_to(l, TRUE)

\* the mask left by reset_visibility_to(true); set_visibility_many(false, ml_nodes)
ml_hidden(l, dis) ==
    set_visibility_many(l, reset_visibility_to(l, TRUE), FALSE, ml_nodes(l, dis))

\* node_indices().filter(no outgoing neighbour)
end_nodes_unsorted(sub) == SelectSeq(sub.nodes, LAMBDA nx : Children(sub.edges, nx) = {})

\* the closure handed to sort_unstable_by
compare_max_depth(E, node_a, node_b) ==
    IF max_depth(E, node_a) < max_depth(E, node_b) THEN "Greater" ELSE "Less"

\* the longest slice that slice::sort_unstable_by sorts by insertion
SMALL_SORT_THRESHOLD == 20

\* one step of the insertion sort: the element is shifted left while
\* is_less(element, left neighbour)
RECURSIVE insert_tail(_, _, _)
insert_tail(E, sorted, x) ==
    IF sorted = <<>> \/ compare_max_depth(E, x, sorted[Len(sorted)]) # "Less"
    THEN Append(sorted, x)
    ELSE Append(insert_tail(E, Front(sorted), x), sorted[Len(sorted)])

\* slice::sort_unstable_by with the closure above, as the set of orders it
\* may leave.  A slice of up to SMALL_SORT_THRESHOLD elements is sorted by
\* insertion.  A longer one goes through the library's quicksort; the
\* closure never answers Equal, so it is no total order and the order among
\* elements of equal max_depth is whatever the partitioning leaves: any
\* order in which every element compares Less to its successor
sort_unstable_by(E, v) ==
    LET RECURSIVE insertion_sort(_, _)
        insertion_sort(sorted, rest) ==
            IF rest = <<>> THEN sorted
            ELSE insertion_sort(insert_tail(E, sorted, rest[1]), Tail(rest))
    IN IF Len(v) <= SMALL_SORT_THRESHOLD THEN {insertion_sort(<<>>, v)}
       ELSE {o \in [1..Len(v) -> Range(v)] :
                /\ \A i, j \in 1..Len(v) : i # j => o[i] # o[j]
                /\ \A i \in 1..(Len(v) - 1) :
                      compare_max_depth(E, o[i], o[i + 1]) = "Less"}

\* the orders in which the sorted end nodes may be stored
matching_loop_end_nodes(sub) == sort_unstable_by(sub.edges, end_nodes_unsorted(sub))

\* mutant: the walk stops at the parents of the end node
ReverseDfsOneLevel(sub, end_node) == {end_node} \cup Parents(sub.edges, end_node)

\* Dfs over Reversed(matching_loop_subgraph) from an end node: the visited set
RECURSIVE ReverseDfsWalk(_, _, _)
ReverseDfsWalk(sub, stack, disc) ==
    IF stack = <<>> THEN disc
    ELSE LET node == stack[Len(stack)]
             rest == Front(stack)
         IN IF node \in disc THEN ReverseDfsWalk(sub, rest, disc)
            ELSE LET disc2 == disc \cup {node}
                     push == SelectSeq(sub.nodes,
                                LAMBDA p : p \in Parents(sub.edges, node) /\ p \notin disc2)
                 IN ReverseDfsWalk(sub, rest \o push, disc2)

ReverseDfs(sub, end_node) == ReverseDfsWalk(sub, <<end_node>>, {})

\* mutant: the rank is offset by the number of loops already on the node
InsertShifted(old, i) == old \cup {i + Cardinality(old)}

\* part_of_ml.insert(i)
InsertRank(old, i) == old \cup {i}

RECURSIVE InsertRanks(_, _)
InsertRanks(old, ranks) ==
    IF ranks = <<>> THEN old ELSE InsertRanks(InsertRank(old, ranks[1]), Tail(ranks))

\* the loop over the enumerated end nodes: rank i goes on every node visited
\* from end node i
assign_part_of_ml(l, pom, sub, ends) ==
    LET visited == [k \in 1..Len(ends) |-> ReverseDfs(sub, ends[k])]
    IN [v \in RawNodes(l) |->
           InsertRanks(pom[v],
               SelectSeq([i \in 1..Len(ends) |-> i - 1],
                         LAMBDA i : v \in visited[i + 1]))]

(***************************************************************************)
(* compute_nth_matching_loop_graph, part 1: folding the instantiations of  *)
(* the n-th loop into abstract instantiations.  A map is a function whose  *)
(* domain is the set of its keys.                                          *)
(***************************************************************************)
MapPut(m, k, val) == [x \in DOMAIN m \cup {k} |-> IF x = k THEN val ELSE m[x]]

RECURSIVE Concat(_)
Concat(ss) == IF ss = <<>> THEN <<>> ELSE ss[1] \o Concat(Tail(ss))

\* MlMatchedTerm::from
MlMatchedTerm_from(matched, quant, pat) ==
    [matched |-> matched, creator |-> <<quant, pat>>]

\* mutant: a later write keeps the creator of the first one
MlMatchedTerm_merge_keep(self, matched, quant, pat) ==
    [matched |-> generalise(self.matched, matched), creator |-> self.creator]

\* MlMatchedTerm::merge_with
MlMatchedTerm_merge_with(self, matched, quant, pat) ==
    [matched |-> generalise(self.matched, matched), creator |-> <<quant, pat>>]

\* MlEquality::from
MlEquality_from(from, to, creators) ==
    [from |-> from, to |-> to, creators |-> Range(creators)]

\* MlEquality::merge_with
MlEquality_merge_with(self, from, to, creators) ==
    [from |-> generalise(self.from, from),
     to |-> generalise(self.to, to),
     creators |-> self.creators \cup Range(creators)]

\* AbstractInst::from
AbstractInst_from(id) == [id |-> id, matched_terms |-> <<>>, equalities |-> <<>>]

\* AbstractInst::merge_nth_blame_term
merge_nth_blame_term(self, n, blame_term, creator_quant, creator_pattern) ==
    [self EXCEPT !.matched_terms =
        IF n \in DOMAIN self.matched_terms
        THEN MapPut(self.matched_terms, n,
                 MlMatchedTerm_merge_with(self.matched_terms[n], blame_term,
                                          creator_quant, creator_pattern))
        ELSE MapPut(self.matched_terms, n,
                 MlMatchedTerm_from(blame_term, creator_quant, creator_pattern))]

\* AbstractInst::merge_nth_equalities
merge_nth_equalities(self, n, from, to, creators) ==
    [self EXCEPT !.equalities =
        IF n \in DOMAIN self.equalities
        THEN MapPut(self.equalities, n,
                 MlEquality_merge_with(self.equalities[n], from, to, creators))
        ELSE MapPut(self.equalities, n, MlEquality_from(from, to, creators))]

\* abstract_insts.get_mut(key), inserting AbstractInst::from(key) when absent
WithAbstractInst(abstract_insts, key) ==
    IF key \in DOMAIN abstract_insts THEN abstract_insts
    ELSE MapPut(abstract_insts, key, AbstractInst_from(key))

\* the Blame slices of instantiation i, zipped with the children of its pattern
MatchedSlices(l, i) ==
    LET tm == trigger_matches(l.blamed[i])
        len == Min({l.arity[pattern(l, i)], Len(tm)})
    IN [k \in 1..len |-> BlameSlice(l.blamed[i], tm[k])]

\* Equality::get_creator_insts
get_creator_insts(l, eq) == l.eq_creators[eq]

\* the (quant, pattern) pairs of the creators of an equality that are Some
creator_insts(l, eq) ==
    LET some == SelectSeq(get_creator_insts(l, eq), LAMBDA c : c # None)
    IN [k \in 1..Len(some) |-> <<quant_idx(l, some[k]), pattern(l, some[k])>>]

\* the unwraps on a creator's match
CreatorOk(l, inst) == pattern(l, inst) # None /\ quant_idx(l, inst) # None

\* no unwrap panics while instantiation i is folded
FoldInstOk(l, i) ==
    /\ pattern(l, i) # None
    /\ LET tm == trigger_matches(l.blamed[i])
           len == Min({l.arity[pattern(l, i)], Len(tm)})
       IN \A k \in 1..len :
            LET slice == BlameSlice(l.blamed[i], tm[k])
            IN /\ BlameOk(slice)
               /\ l.created_by[BlameENode(slice)] # None
                    => CreatorOk(l, l.created_by[BlameENode(slice)])
               /\ \A j \in 2..Len(slice) :
                    \A c \in Range(get_creator_insts(l, slice[j].id)) \ {None} :
                        CreatorOk(l, c)
    /\ quant_idx(l, i) # None

\* the loop `for (n, matched_term) in matched_terms.iter().enumerate()`
RECURSIVE fold_matched_terms(_, _, _, _, _)
fold_matched_terms(l, abstract_insts, key, slices, n) ==
    IF n >= Len(slices) THEN abstract_insts
    ELSE LET matched_term == BlameENode(slices[n + 1])
             creator == l.created_by[matched_term]
             ai == WithAbstractInst(abstract_insts, key)
         IN fold_matched_terms(l,
                IF creator = None THEN abstract_insts
                ELSE [ai EXCEPT ![key] =
                         merge_nth_blame_term(ai[key], n, l.owner[matched_term],
                             quant_idx(l, creator), pattern(l, creator))],
                key, slices, n + 1)

\* the pairs (n + i, eq) in the order of the nested loops over `equalities`
EqualitySlots(slices) ==
    Concat([n \in 1..Len(slices) |->
               [i \in 1..Len(BlameEqualities(slices[n])) |->
                   [slot |-> (n - 1) + (i - 1), eq |-> BlameEqualities(slices[n])[i]]]])

RECURSIVE fold_equalities(_, _, _, _)
fold_equalities(l, abstract_insts, key, slots) ==
    IF slots = <<>> THEN abstract_insts
    ELSE LET eq == slots[1].eq
             cs == creator_insts(l, eq)
             ai == WithAbstractInst(abstract_insts, key)
         IN fold_equalities(l,
                IF cs = <<>> THEN abstract_insts
                ELSE [ai EXCEPT ![key] =
                         merge_nth_equalities(ai[key], slots[1].slot,
                             l.owner[l.eq_from[eq]], l.owner[l.eq_to[eq]], cs)],
                key, Tail(slots))

\* the body of `for nx in nodes_of_nth_matching_loop` for an instantiation
fold_inst(l, abstract_insts, i) ==
    LET key == <<quant_idx(l, i), pattern(l, i)>>
        slices == MatchedSlices(l, i)
    IN fold_equalities(l, fold_matched_terms(l, abstract_insts, key, slices, 0),
                       key, EqualitySlots(slices))

RECURSIVE fold_nodes(_, _, _)
fold_nodes(l, abstract_insts, nodes) ==
    IF nodes = <<>> THEN abstract_insts
    ELSE fold_nodes(l,
             IF IsInst(nodes[1]) THEN fold_inst(l, abstract_insts, nodes[1][2])
             ELSE abstract_insts,
             Tail(nodes))

(***************************************************************************)
(* compute_nth_matching_loop_graph, part 2: the graph.  Nodes are          *)
(* MLGraphNode values (one node per value), edges are pairs of nodes.      *)
(***************************************************************************)
NoTerm == Term(<<>>, FALSE)
ML_QI(quant, pat) == [kind |-> "QI", quant |-> quant, a |-> pat, b |-> NoTerm]
ML_ENode(t) == [kind |-> "ENode", quant |-> None, a |-> t, b |-> NoTerm]
ML_Equality(from, to) == [kind |-> "Equality", quant |-> None, a |-> from, b |-> to]

\* the QI node of an abstract instantiation (found in nx_of_abstract_inst,
\* or added for a key of abstract_insts, or added as a stub)
QINodeOf(id) == ML_QI(id[1], generalise_pattern(id[2]))

\* mutant: the creator's QI node is added but not joined to the term
MatchedTermEdgesNoCreator(key, m) == {<<ML_ENode(m.matched), QINodeOf(key)>>}

\* the two update_edge calls for a matched term of the abstract instantiation
MatchedTermEdges(key, m) ==
    {<<ML_ENode(m.matched), QINodeOf(key)>>, <<QINodeOf(m.creator), ML_ENode(m.matched)>>}

\* mutant: the equality is joined to its abstract instantiation only
EqualityEdgesNoCreator(key, eq) == {<<ML_Equality(eq.from, eq.to), QINodeOf(key)>>}

\* the update_edge calls for an equality of the abstract instantiation
EqualityEdges(key, eq) ==
    {<<ML_Equality(eq.from, eq.to), QINodeOf(key)>>}
    \cup {<<QINodeOf(c), ML_Equality(eq.from, eq.to)>> : c \in eq.creators}

ml_graph_of(abstract_insts) ==
    LET keys == DOMAIN abstract_insts
        mts == UNION {{<<k, abstract_insts[k].matched_terms[n]>> :
                          n \in DOMAIN abstract_insts[k].matched_terms} : k \in keys}
        eqs == UNION {{<<k, abstract_insts[k].equalities[n]>> :
                          n \in {x \in DOMAIN abstract_insts[k].equalities :
                                    abstract_insts[k].equalities[x].from
                                        # abstract_insts[k].equalities[x].to}} : k \in keys}
    IN [nodes |-> {QINodeOf(k) : k \in keys}
                  \cup {ML_ENode(x[2].matched) : x \in mts}
                  \cup {QINodeOf(x[2].creator) : x \in mts}
                  \cup {ML_Equality(x[2].from, x[2].to) : x \in eqs}
                  \cup UNION {{QINodeOf(c) : c \in x[2].creators} : x \in eqs},
        edges |-> UNION {MatchedTermEdges(x[1], x[2]) : x \in mts}
                  \cup UNION {EqualityEdges(x[1], x[2]) : x \in eqs}]

(***************************************************************************)
(* compute_nth_matching_loop_graph, part 2 as the calls on the petgraph     *)
(* Graph: nodes is the list of node weights (node index k is entry k + 1), *)
(* edges the list of (source, target) index pairs, and the two maps give   *)
(* the index of the node added for a value or key.                         *)
(***************************************************************************)
\* Graph::update_edge: the edge a -> b is added unless it is there already
update_edge(g, a, b) ==
    IF <<a, b>> \in Range(g.edges) THEN g ELSE [g EXCEPT !.edges = Append(@, <<a, b>>)]

\* nx_of_gen_term.get(node), or add_node(node) and insert
ml_gen_term_node(g, node) ==
    IF node \in DOMAIN g.nx_of_gen_term THEN g
    ELSE [g EXCEPT !.nodes = Append(@, node),
                   !.nx_of_gen_term = MapPut(@, node, Len(g.nodes))]

\* mutant: a QI node is added without looking the key up
ml_qi_node_always(g, key) ==
    [g EXCEPT !.nodes = Append(@, QINodeOf(key)),
              !.nx_of_abstract_inst = MapPut(@, key, Len(g.nodes))]

\* nx_of_abstract_inst.get(key), or add_node(QI(key)) and insert; the QI node
\* of a key without abstract instantiation is added in the same way
ml_qi_node(g, key) ==
    IF key \in DOMAIN g.nx_of_abstract_inst THEN g
    ELSE [g EXCEPT !.nodes = Append(@, QINodeOf(key)),
                   !.nx_of_abstract_inst = MapPut(@, key, Len(g.nodes))]

\* the three nested loops over abstract_insts, matched_terms.values() and
\* equalities.values(), and the loop over eq.creators.  walk gives the
\* sequence in which each hash container is iterated: walk[<<"keys", <<0, 0>>, 0>>]
\* for abstract_insts, walk[<<"matched", key, 0>>] and walk[<<"equalities", key, 0>>]
\* for the two maps of an abstract instantiation, walk[<<"creators", key, n>>]
\* for the creator set of its equality slot n
ml_graph_built(abstract_insts, walk) ==
    LET RECURSIVE add_creators(_, _, _)
        add_creators(g, eq_nx, cs) ==
            IF cs = <<>> THEN g
            ELSE LET g1 == ml_qi_node(g, cs[1])
                 IN add_creators(update_edge(g1, g1.nx_of_abstract_inst[cs[1]], eq_nx),
                                 eq_nx, Tail(cs))
        add_matched_term(g, key, m) ==
            LET enode == ML_ENode(m.matched)
                g1 == ml_gen_term_node(g, enode)
                matched_term_nx == g1.nx_of_gen_term[enode]
                g2 == update_edge(g1, matched_term_nx, g1.nx_of_abstract_inst[key])
                g3 == ml_qi_node(g2, m.creator)
            IN update_edge(g3, g3.nx_of_abstract_inst[m.creator], matched_term_nx)
        add_equality(g, key, n) ==
            LET eq == abstract_insts[key].equalities[n]
            IN IF eq.from = eq.to THEN g
               ELSE LET eq_node == ML_Equality(eq.from, eq.to)
                        g1 == ml_gen_term_node(g, eq_node)
                        eq_nx == g1.nx_of_gen_term[eq_node]
                        g2 == update_edge(g1, eq_nx, g1.nx_of_abstract_inst[key])
                    IN add_creators(g2, eq_nx, walk[<<"creators", key, n>>])
        RECURSIVE add_matched_terms(_, _, _)
        add_matched_terms(g, key, ns) ==
            IF ns = <<>> THEN g
            ELSE add_matched_terms(
                     add_matched_term(g, key, abstract_insts[key].matched_terms[ns[1]]),
                     key, Tail(ns))
        RECURSIVE add_equalities(_, _, _)
        add_equalities(g, key, ns) ==
            IF ns = <<>> THEN g
            ELSE add_equalities(add_equality(g, key, ns[1]), key, Tail(ns))
        RECURSIVE add_abstract_insts(_, _)
        add_abstract_insts(g, keys) ==
            IF keys = <<>> THEN g
            ELSE LET key == keys[1]
                     g1 == ml_qi_node(g, key)
                     g2 == add_matched_terms(g1, key, walk[<<"matched", key, 0>>])
                 IN add_abstract_insts(
                        add_equalities(g2, key, walk[<<"equalities", key, 0>>]),
                        Tail(keys))
    IN add_abstract_insts([nodes |-> <<>>, edges |-> <<>>, nx_of_gen_term |-> <<>>,
                           nx_of_abstract_inst |-> <<>>],
                          walk[<<"keys", <<0, 0>>, 0>>])

\* the nodes with n in part_of_ml, collected into an FxHashSet and walked:
\* order[n + 1] is the sequence in which the hasher of the build walks the
\* set of loop n
nodes_of_nth_matching_loop(l, pom, n, order) ==
    SelectSeq(order[n + 1], LAMBDA v : n \in pom[v])

\* no unwrap panics in compute_nth_matching_loop_graph(n)
compute_nth_ok(l, pom, n) ==
    \A v \in RawNodes(l) : (n \in pom[v] /\ IsInst(v)) => FoldInstOk(l, v[2])

\* the graph built from the loop's nodes visited in the given sequence
ml_graph_in_order(l, nodes) == ml_graph_of(fold_nodes(l, <<>>, nodes))

compute_nth_matching_loop_graph(l, pom, n, order) ==
    ml_graph_in_order(l, nodes_of_nth_matching_loop(l, pom, n, order))

(***************************************************************************)
(* The logs the analysis is run on.  In a log built by LogOf, e-node 0     *)
(* exists from the start, instantiation i blames the e-nodes bl[i] (one    *)
(* per child of its pattern), yields e-node i, and the pattern of          *)
(* quantifier q is pattern q; the term of e-node i applies the symbol of   *)
(* its quantifier to the term of the first e-node it blames.               *)
(***************************************************************************)
QuantIds == {1, 2}

RECURSIVE OwnerPath(_, _, _)
OwnerPath(qs, bl, e) ==
    IF e = 0 THEN RootTerm.path ELSE <<qs[e]>> \o OwnerPath(qs, bl, bl[e][1])

LogOf(n, qs, bl, ar) ==
    LET blamed == [i \in 1..n |->
                      [k \in 1..Len(bl[i]) |-> [tag |-> "Term", id |-> bl[i][k]]]]
        created_by == [e \in 0..n |-> e]
    IN [n |-> n,
        kind |-> [i \in 1..n |-> "Quantifier"],
        m_quant |-> qs,
        m_pattern |-> qs,
        blamed |-> blamed,
        created_by |-> created_by,
        owner |-> [e \in 0..n |-> Term(OwnerPath(qs, bl, e), FALSE)],
        eq_from |-> <<>>, eq_to |-> <<>>, eq_creators |-> <<>>,
        arity |-> ar,
        order |-> <<RawENode(0)>> \o Concat([i \in 1..n |-> <<RawInst(i), RawENode(i)>>]),
        raw_edges |-> RawEdgesOf(blamed, created_by, <<>>),
        no_depth |-> {}]

\* every log of MIN_MATCHING_LOOP_LENGTH..MaxInsts instantiations over unary
\* patterns in which each instantiation blames one earlier e-node
FamilyLogs ==
    UNION {{LogOf(n, qs, [i \in 1..n |-> <<par[i]>>], [q \in QuantIds |-> 1]) :
               qs \in {x \in [1..n -> QuantIds] : x[1] = 1},
               par \in {x \in [1..n -> 0..(n - 1)] : \A i \in 1..n : x[i] < i}} :
           n \in MIN_MATCHING_LOOP_LENGTH..MaxInsts}

\* two chains c1 -> c2 -> x and z1 -> z2 -> z of different quantifiers with
\* binary patterns; z also blames x; y blames z and c2
InterleavedLog ==
    LogOf(7, <<1, 1, 1, 2, 2, 2, 1>>,
          <<<<0, 0>>, <<1, 0>>, <<2, 0>>, <<0, 0>>, <<4, 0>>, <<5, 3>>, <<6, 2>>>>,
          [q \in QuantIds |-> 2])

\* the interleaved log with one more child w of c2, emitted before y
BranchedLog ==
    LogOf(8, <<1, 1, 1, 2, 2, 2, 1, 1>>,
          <<<<0, 0>>, <<1, 0>>, <<2, 0>>, <<0, 0>>, <<4, 0>>, <<5, 3>>, <<2, 0>>, <<6, 2>>>>,
          [q \in QuantIds |-> 2])

\* a chain of five instantiations of one quantifier and a chain of four of
\* another, sharing no nodes
TwoChainsLog ==
    LogOf(9, <<1, 1, 1, 1, 1, 2, 2, 2, 2>>,
          <<<<0>>, <<1>>, <<2>>, <<3>>, <<4>>, <<0>>, <<6>>, <<7>>, <<8>>>>,
          [q \in QuantIds |-> 1])

\* a chain of three in which the last instantiation also blames an equality
\* between e-nodes 0 and 1 that instantiation 1 gave rise to
EqualityLog ==
    LET base == LogOf(3, <<1, 1, 1>>, <<<<0>>, <<1>>, <<2>>>>, [q \in QuantIds |-> 1])
        blamed == [base.blamed EXCEPT ![3] = <<[tag |-> "Term", id |-> 2],
                                               [tag |-> "Equality", id |-> 1]>>]
        eq_creators == <<<<1, None>>>>
    IN [base EXCEPT !.blamed = blamed,
                    !.eq_from = <<0>>,
                    !.eq_to = <<1>>,
                    !.eq_creators = eq_creators,
                    !.order = <<RawENode(0), RawInst(1), RawENode(1), RawEq(1),
                                RawInst(2), RawENode(2), RawInst(3), RawENode(3)>>,
                    !.raw_edges = RawEdgesOf(blamed, base.created_by, eq_creators)]

\* a chain 2 -> 3 -> 4 over a binary pattern whose last instantiation also
\* blames the e-node of instantiation 1, a theory-solving instantiation
TheoryCreatorLog ==
    [LogOf(4, <<1, 1, 1, 1>>, <<<<0, 0>>, <<0, 0>>, <<2, 0>>, <<3, 1>>>>,
           [q \in QuantIds |-> 2])
        EXCEPT !.kind[1] = "TheorySolving"]

\* a chain of three instantiations of one quantifier, the last one found by
\* model-based instantiation: its match has a quantifier but no pattern
MbqiLog ==
    [LogOf(3, <<1, 1, 1>>, <<<<0>>, <<1>>, <<2>>>>, [q \in QuantIds |-> 1])
        EXCEPT !.kind[3] = "MBQI"]

\* the interleaved log in which x and y also blame equalities, two at their
\* first trigger position and one at their second, and z blames an equality
\* of e-node 0 with itself; the equalities stem from c2 and z1, the last one
\* from c1; c1 and z1 are instantiations of patterns of their own
EqualitySlotsLog ==
    LET base == InterleavedLog
        eqs(e1, q1, e2) ==
            <<[tag |-> "Term", id |-> e1], [tag |-> "Equality", id |-> q1],
              [tag |-> "Equality", id |-> 2], [tag |-> "Term", id |-> e2],
              [tag |-> "Equality", id |-> 3]>>
        blamed == [base.blamed EXCEPT
                      ![3] = eqs(2, 1, 0),
                      ![6] = <<[tag |-> "Term", id |-> 5], [tag |-> "Equality", id |-> 4],
                               [tag |-> "Term", id |-> 3]>>,
                      ![7] = eqs(6, 2, 2)]
        eq_creators == <<<<2>>, <<2>>, <<4, None>>, <<1>>>>
    IN [base EXCEPT !.m_pattern[1] = 3,
                    !.m_pattern[4] = 4,
                    !.blamed = blamed,
                    !.eq_from = <<0, 1, 0, 0>>,
                    !.eq_to = <<1, 2, 1, 0>>,
                    !.eq_creators = eq_creators,
                    !.order = <<RawENode(0), RawInst(1), RawENode(1), RawEq(1),
                                RawEq(4), RawInst(2), RawENode(2), RawEq(2),
                                RawInst(3), RawENode(3), RawInst(4), RawENode(4),
                                RawEq(3), RawInst(5), RawENode(5), RawInst(6),
                                RawENode(6), RawInst(7), RawENode(7)>>,
                    !.raw_edges = RawEdgesOf(blamed, base.created_by, eq_creators)]

ScenarioLogs ==
    {InterleavedLog, BranchedLog, TwoChainsLog, EqualityLog, TheoryCreatorLog, MbqiLog,
     EqualitySlotsLog}

Logs == FamilyLogs \cup ScenarioLogs

(***************************************************************************)
(* Spec: the matching-loop analysis on a loaded log                        *)
(***************************************************************************)
\* the walks of the FxHashSets of loop nodes that a build may make: one
\* sequence per loop of the log, listing the nodes of the loop in any order
\* (the hasher fixes it; it is the same on every walk of the same set) and
\* after them the nodes outside the loop
HashOrders(l) ==
    LET dis == [v \in RawNodes(l) |-> ~IsInst(v)]
        sub == to_visible_simplified(l, dis, ml_hidden(l, dis))
        walks(S) ==
            {o \o SelectSeq(l.order, LAMBDA v : v \notin S) :
                o \in {x \in [1..Cardinality(S) -> S] :
                          \A i, j \in 1..Cardinality(S) : i # j => x[i] # x[j]}}
        RECURSIVE product(_, _)
        product(ends, k) ==
            IF k > Len(ends) THEN {<<>>}
            ELSE {<<o>> \o t : o \in walks(ReverseDfs(sub, ends[k])),
                                t \in product(ends, k + 1)}
    IN UNION {product(ends, 1) : ends \in matching_loop_end_nodes(sub)}

Init ==
    /\ log \in Logs
    /\ hash_order \in HashOrders(log)
    /\ disabled = [v \in RawNodes(log) |-> FALSE]
    /\ hidden = [v \in RawNodes(log) |-> FALSE]
    /\ part_of_ml = [v \in RawNodes(log) |-> {}]
    /\ ml_end_nodes = <<>>
    /\ ml_graphs = <<>>
    /\ status = "idle"
    /\ ret = NoRet
    /\ graph = {}
    /\ discovered = {}
    /\ subgraphs = <<>>
    /\ node_ix = <<>>
    /\ next_enabled = NextEnabledPass(log, disabled)
    /\ applied = NoFilters
    /\ parse_state = NoLines

\* mutant: the snapshot is not put back, every node stays enabled
RestoreNothing(l, currently_disabled_nodes) == reset_disabled_to(l, {})

\* the last reset_disabled_to of search_matching_loops
RestoreDisabled(l, currently_disabled_nodes) ==
    reset_disabled_to(l, {nx \in RawNodes(l) : nx \in currently_disabled_nodes})

\* mutant: a graph is returned for every n up to and including the length
NthGraphOffByOne(graphs, n) ==
    IF n < Len(graphs) THEN graphs[n + 1]
    ELSE IF n = Len(graphs) /\ n > 0 THEN graphs[n] ELSE NoGraph

\* analysis.matching_loop_graphs.get(n), or the default graph
NthGraph(graphs, n) == IF n < Len(graphs) THEN graphs[n + 1] ELSE NoGraph

\* InstGraph::search_matching_loops
search_matching_loops ==
    /\ status = "idle"
    /\ LET currently_disabled_nodes == disabled_nodes(log, disabled)
           dis1 == reset_disabled_to(log, {nx \in RawNodes(log) : ~IsInst(nx)})
           hid1 == ml_hidden(log, dis1)
           matching_loop_subgraph == to_visible_simplified(log, dis1, hid1)
       IN \E ends \in matching_loop_end_nodes(matching_loop_subgraph) :
          LET pom == assign_part_of_ml(log, part_of_ml, matching_loop_subgraph, ends)
              nr == Len(ends)
          IN \* the sort is a function of the slice: the same end nodes come out
             \* in the same order on every search
             /\ ml_end_nodes # <<>> => ends = ml_end_nodes[1]
             /\ hidden' = hid1
             /\ part_of_ml' = pom
             /\ ml_end_nodes' = <<ends>>
             /\ IF \A n \in 0..(nr - 1) : compute_nth_ok(log, pom, n)
                THEN /\ ml_graphs' = [n \in 1..nr |->
                            compute_nth_matching_loop_graph(log, pom, n - 1, hash_order)]
                     /\ disabled' = RestoreDisabled(log, currently_disabled_nodes)
                     /\ status' = "idle"
                     /\ ret' = [op |-> "search", n |-> nr, g |-> NoGraph]
                ELSE \* an unwrap panicked inside compute_nth_matching_loop_graph
                     /\ ml_graphs' = ml_graphs
                     /\ disabled' = reset_disabled_to(log, {})
                     /\ status' = "aborted"
                     /\ ret' = [op |-> "panic", n |-> -1, g |-> NoGraph]
    /\ next_enabled' = NextEnabledPass(log, disabled')
    /\ UNCHANGED <<log, hash_order, graph, discovered, subgraphs, node_ix,
                   applied, parse_state>>

\* InstGraph::nth_matching_loop_graph
nth_matching_loop_graph(n) ==
    /\ status = "idle"
    /\ ret' = [op |-> "nth", n |-> n, g |-> NthGraph(ml_graphs, n)]
    /\ UNCHANGED <<log, hash_order, disabled, hidden, part_of_ml, ml_end_nodes,
                   ml_graphs, status, graph, discovered, subgraphs, node_ix,
                   next_enabled, applied, parse_state>>

\* a caller disables the instantiations of one quantifier
DisableQuantifier(q) ==
    /\ status = "idle"
    /\ disabled' = reset_disabled_to(log,
                       {nx \in RawNodes(log) : IsInst(nx) /\ quant_idx(log, nx[2]) = q})
    /\ next_enabled' = NextEnabledPass(log, disabled')
    /\ ret' = [op |-> "reset", n |-> q, g |-> NoGraph]
    /\ UNCHANGED <<log, hash_order, hidden, part_of_ml, ml_end_nodes,
                   ml_graphs, status, graph, discovered, subgraphs, node_ix,
                   applied, parse_state>>

Next ==
    \/ search_matching_loops
    \/ \E n \in 0..(Len(ml_graphs) + 1) : nth_matching_loop_graph(n)
    \/ \E q \in QuantIds : DisableQuantifier(q)

Spec == Init /\ [][Next]_vars

(***************************************************************************)
(* SpecEnabled: the disabled mask of a small log is reset to an arbitrary  *)
(* predicate and the NextEnabled analysis is rerun; matching loops are     *)
(* searched from any of these masks.                                       *)
(***************************************************************************)
EnabledLogs == {l \in FamilyLogs : l.n = MIN_MATCHING_LOOP_LENGTH} \cup {EqualityLog}

EnabledInit == Init /\ log \in EnabledLogs

\* InstGraph::reset_disabled_to(parser, f) for the predicate that holds of P
ResetDisabledTo(P) ==
    /\ status = "idle"
    /\ disabled' = reset_disabled_to(log, P)
    /\ next_enabled' = NextEnabledPass(log, disabled')
    /\ ret' = [op |-> "reset_to", n |-> Cardinality(P), g |-> P]
    /\ UNCHANGED <<log, hash_order, hidden, part_of_ml, ml_end_nodes,
                   ml_graphs, status, graph, discovered, subgraphs, node_ix,
                   applied, parse_state>>

\* the NextInsts pass in each direction, run once on the graph just built
NextInstsPass ==
    /\ status = "idle"
    /\ ret.op = "init"
    /\ ret' = [op |-> "next_insts",
               n |-> Cardinality(RawNodes(log)),
               g |-> [parents |-> [v \in RawNodes(log) |-> inst_parents(log, v)],
                      children |-> [v \in RawNodes(log) |-> inst_children(log, v)]]]
    /\ UNCHANGED <<log, hash_order, disabled, hidden, part_of_ml, ml_end_nodes,
                   ml_graphs, status, graph, discovered, subgraphs, node_ix,
                   next_enabled, applied, parse_state>>

EnabledNext ==
    \/ \E P \in SUBSET RawNodes(log) : ResetDisabledTo(P)
    \/ NextInstsPass
    \/ search_matching_loops

SpecEnabled == EnabledInit /\ [][EnabledNext]_vars

(***************************************************************************)
(* SpecFilters: the filter engine.  A filter is [tag, n, b]: n is its      *)
(* integer argument (a bound, an instantiation, a quantifier, a rank), b   *)
(* its flag (retain, or the direction Outgoing).  Filters act on the       *)
(* instantiation nodes; u -> x is an edge of the instantiation graph when  *)
(* x is reached from u through nodes that are not instantiations.          *)
(***************************************************************************)
F(tag, n, b) == [tag |-> tag, n |-> n, b |-> b]

InstNodes(l) == {RawInst(i) : i \in 1..l.n}

InstEdges(l) ==
    LET dis == reset_disabled_to(l, {v \in RawNodes(l) : ~IsInst(v)})
    IN UNION {{<<u, x>> : x \in enabled_children(l, dis, u)} : u \in InstNodes(l)}

\* NodeData.min_depth: shortest distance from a root
RECURSIVE min_depth(_, _)
min_depth(E, v) ==
    IF Parents(E, v) = {} THEN 0
    ELSE 1 + Min({min_depth(E, p) : p \in Parents(E, v)})

RECURSIVE Descendants(_, _)
Descendants(E, v) == UNION {{c} \cup Descendants(E, c) : c \in Children(E, v)}

\* the children of u in the visible graph
RECURSIVE VisibleChildren(_, _, _)
VisibleChildren(E, hid, u) ==
    UNION {IF ~hid[c] THEN {c} ELSE VisibleChildren(E, hid, c) : c \in Children(E, u)}

\* InstGraph::retain_nodes(retain): hides the instantiations the predicate
\* does not hold of; keep is the set of those it holds of
retain_nodes(l, hid, keep) ==
    [v \in RawNodes(l) |-> hid[v] \/ (IsInst(v) /\ v \notin keep)]

\* the n visible instantiations with the highest score, ties to the lower index
TopN(l, hid, n, score) ==
    LET vis == {v \in InstNodes(l) : ~hid[v]}
    IN {v \in vis :
          Cardinality({u \in vis : \/ score[u] > score[v]
                                   \/ score[u] = score[v] /\ u[2] < v[2]}) < n}

\* InstGraph::keep_n_most_costly; the cost of an instantiation is the number
\* of e-nodes it yielded
keep_n_most_costly(l, hid, n) ==
    retain_nodes(l, hid,
        TopN(l, hid, n,
             [v \in InstNodes(l) |->
                 Cardinality({e \in DOMAIN l.created_by : l.created_by[e] = v[2]})]))

\* InstGraph::keep_n_most_branching
keep_n_most_branching(l, hid, n) ==
    retain_nodes(l, hid,
        TopN(l, hid, n,
             [v \in InstNodes(l) |->
                 Cardinality(VisibleChildren(InstEdges(l), hid, v))]))

\* InstGraph::show_neighbours
show_neighbours(l, hid, nidx, outgoing) ==
    set_visibility_many(l, hid, FALSE,
        IF outgoing THEN Children(InstEdges(l), RawInst(nidx))
        ELSE Parents(InstEdges(l), RawInst(nidx)))

\* InstGraph::visit_descendants
visit_descendants(l, hid, nidx, retain) ==
    LET tree == Descendants(InstEdges(l), RawInst(nidx)) \cup {RawInst(nidx)}
    IN retain_nodes(l, hid, IF retain THEN tree ELSE InstNodes(l) \ tree)

\* InstGraph::visit_ancestors
visit_ancestors(l, hid, nidx, retain) ==
    LET tree == Descendants({<<e[2], e[1]>> : e \in InstEdges(l)}, RawInst(nidx))
                \cup {RawInst(nidx)}
    IN retain_nodes(l, hid, IF retain THEN tree ELSE InstNodes(l) \ tree)

\* the instantiations after v on a longest path along E that starts at v,
\* the lower index first among equally long ones
RECURSIVE LongestFrom(_, _)
LongestFrom(E, v) ==
    IF Children(E, v) = {} THEN <<>>
    ELSE LET len == [c \in Children(E, v) |-> Len(LongestFrom(E, c))]
             best == {c \in Children(E, v) : \A o \in Children(E, v) : len[o] <= len[c]}
             c == CHOOSE x \in best : \A o \in best : x[2] <= o[2]
         IN <<c[2]>> \o LongestFrom(E, c)

\* InstGraph::show_longest_path_through(nidx) on a graph with the mask hid:
\* the mask it leaves (the one it found) and the path it returns
show_longest_path_through(l, hid, nidx) ==
    LET up == LongestFrom({<<e[2], e[1]>> : e \in InstEdges(l)}, RawInst(nidx))
    IN [mask |-> hid,
        path |-> [k \in 1..Len(up) |-> up[Len(up) + 1 - k]] \o <<nidx>>
                 \o LongestFrom(InstEdges(l), RawInst(nidx))]

\* InstGraph::show_named_quantifier; quantifier q is named by q
show_named_quantifier(l, hid, name) ==
    set_visibility_many(l, hid, FALSE,
        {v \in InstNodes(l) : quant_idx(l, v[2]) = name})

\* InstGraph::show_nth_matching_loop: the mask
show_nth_matching_loop(l, hid, pom, n) ==
    retain_nodes(l, hid, {v \in InstNodes(l) : n \in pom[v]})

\* InstGraph::show_matching_loop_subgraph
show_matching_loop_subgraph(l, hid, pom) ==
    retain_nodes(l, hid, {v \in InstNodes(l) : pom[v] # {}})

\* mutant: the MaxNodeIdx arm calls keep_n_most_costly with its bound
Filter_apply_costly(l, hid, pom, f) ==
    CASE f.tag = "MaxNodeIdx" -> keep_n_most_costly(l, hid, f.n)
      [] f.tag = "IgnoreTheorySolving" ->
            retain_nodes(l, hid, {v \in InstNodes(l) : l.kind[v[2]] # "TheorySolving"})
      [] f.tag = "IgnoreQuantifier" ->
            retain_nodes(l, hid, {v \in InstNodes(l) : quant_idx(l, v[2]) # f.n})
      [] f.tag = "IgnoreAllButQuantifier" ->
            retain_nodes(l, hid, {v \in InstNodes(l) : quant_idx(l, v[2]) = f.n})
      [] f.tag = "MaxInsts" -> keep_n_most_costly(l, hid, f.n)
      [] f.tag = "MaxBranching" -> keep_n_most_branching(l, hid, f.n)
      [] f.tag = "ShowNeighbours" -> show_neighbours(l, hid, f.n, f.b)
      [] f.tag = "VisitSubTreeWithRoot" -> visit_descendants(l, hid, f.n, f.b)
      [] f.tag = "VisitSourceTree" -> visit_ancestors(l, hid, f.n, f.b)
      [] f.tag = "MaxDepth" ->
            retain_nodes(l, hid,
                {v \in InstNodes(l) : min_depth(InstEdges(l), v) <= f.n})
      [] f.tag = "ShowLongestPath" -> show_longest_path_through(l, hid, f.n).mask
      [] f.tag = "ShowNamedQuantifier" -> show_named_quantifier(l, hid, f.n)
      [] f.tag = "SelectNthMatchingLoop" -> show_nth_matching_loop(l, hid, pom, f.n)
      [] f.tag = "ShowMatchingLoopSubgraph" -> show_matching_loop_subgraph(l, hid, pom)

\* Filter::apply: the effect on the mask
Filter_apply(l, hid, pom, f) ==
    CASE f.tag = "MaxNodeIdx" ->
            retain_nodes(l, hid, {v \in InstNodes(l) : v[2] - 1 <= f.n})
      [] f.tag = "IgnoreTheorySolving" ->
            retain_nodes(l, hid, {v \in InstNodes(l) : l.kind[v[2]] # "TheorySolving"})
      [] f.tag = "IgnoreQuantifier" ->
            retain_nodes(l, hid, {v \in InstNodes(l) : quant_idx(l, v[2]) # f.n})
      [] f.tag = "IgnoreAllButQuantifier" ->
            retain_nodes(l, hid, {v \in InstNodes(l) : quant_idx(l, v[2]) = f.n})
      [] f.tag = "MaxInsts" -> keep_n_most_costly(l, hid, f.n)
      [] f.tag = "MaxBranching" -> keep_n_most_branching(l, hid, f.n)
      [] f.tag = "ShowNeighbours" -> show_neighbours(l, hid, f.n, f.b)
      [] f.tag = "VisitSubTreeWithRoot" -> visit_descendants(l, hid, f.n, f.b)
      [] f.tag = "VisitSourceTree" -> visit_ancestors(l, hid, f.n, f.b)
      [] f.tag = "MaxDepth" ->
            retain_nodes(l, hid,
                {v \in InstNodes(l) : min_depth(InstEdges(l), v) <= f.n})
      [] f.tag = "ShowLongestPath" -> show_longest_path_through(l, hid, f.n).mask
      [] f.tag = "ShowNamedQuantifier" -> show_named_quantifier(l, hid, f.n)
      [] f.tag = "SelectNthMatchingLoop" -> show_nth_matching_loop(l, hid, pom, f.n)
      [] f.tag = "ShowMatchingLoopSubgraph" -> show_matching_loop_subgraph(l, hid, pom)

\* Filter::apply returns: min_depth.unwrap() panics on a node without depth
Filter_ok(l, f) == f.tag = "MaxDepth" => l.no_depth = {}

\* mutant: ShowLongestPath falls through to FilterOutput::None
FilterOutputNone(l, hid, pom, f) == [tag |-> "None", val |-> <<>>]

\* Filter::apply on a graph with the mask hid: the FilterOutput returned; the
\* generalised terms of a loop are stood for by the instantiations of the loop
FilterOutputOf(l, hid, pom, f) ==
    CASE f.tag = "ShowLongestPath" ->
            [tag |-> "LongestPath", val |-> show_longest_path_through(l, hid, f.n).path]
      [] f.tag = "SelectNthMatchingLoop" ->
            [tag |-> "MatchingLoopGeneralizedTerms",
             val |-> SelectSeq([i \in 1..l.n |-> i], LAMBDA i : f.n \in pom[RawInst(i)])]
      [] OTHER -> [tag |-> "None", val |-> <<>>]

\* the filters applied in order to a mask
RECURSIVE ApplyFrom(_, _, _, _)
ApplyFrom(l, hid, pom, stack) ==
    IF stack = <<>> THEN hid
    ELSE ApplyFrom(l, Filter_apply(l, hid, pom, Head(stack)), pom, Tail(stack))

\* apply_filters: the stack reapplied to a mask reset to all visible
apply_filters(l, pom, stack) ==
    ApplyFrom(l, reset_visibility_to(l, FALSE), pom, stack)

\* an isolated theory-solving instantiation 1, a chain 2 -> 3 -> 4 of
\* quantifier 1, and an instantiation 5 of quantifier 2 that is a second
\* child of 3
FilterLog ==
    [LogOf(5, <<1, 1, 1, 1, 2>>, <<<<0>>, <<0>>, <<2>>, <<3>>, <<3>>>>,
           [q \in QuantIds |-> 1])
        EXCEPT !.kind[1] = "TheorySolving"]

\* the same log before the minDepth pass has run on its graph
UncomputedLog == [FilterLog EXCEPT !.no_depth = {i \in 1..FilterLog.n : TRUE}]

\* the filters a stack is made of
Catalogue ==
    {F("MaxNodeIdx", 2, FALSE), F("IgnoreTheorySolving", 0, FALSE),
     F("IgnoreQuantifier", 1, FALSE), F("IgnoreQuantifier", None, FALSE),
     F("IgnoreAllButQuantifier", 1, FALSE), F("MaxInsts", 2, FALSE),
     F("MaxInsts", 1, FALSE),
     F("MaxBranching", 1, FALSE), F("ShowNeighbours", 3, TRUE),
     F("ShowNeighbours", 3, FALSE), F("VisitSubTreeWithRoot", 3, TRUE),
     F("VisitSubTreeWithRoot", 3, FALSE), F("VisitSourceTree", 4, TRUE),
     F("VisitSourceTree", 4, FALSE), F("MaxDepth", 1, FALSE),
     F("ShowLongestPath", 3, FALSE), F("ShowNamedQuantifier", 2, FALSE),
     F("SelectNthMatchingLoop", 0, FALSE), F("ShowMatchingLoopSubgraph", 0, FALSE)}

\* longest filter stack
MaxStack == 2

FiltersInit ==
    /\ log \in {FilterLog, UncomputedLog}
    /\ hash_order \in HashOrders(log)
    /\ disabled = [v \in RawNodes(log) |-> FALSE]
    /\ hidden = [v \in RawNodes(log) |-> FALSE]
    /\ part_of_ml = [v \in RawNodes(log) |-> {}]
    /\ ml_end_nodes = <<>>
    /\ ml_graphs = <<>>
    /\ status = "idle"
    /\ ret = NoRet
    /\ graph = {}
    /\ discovered = {}
    /\ subgraphs = <<>>
    /\ node_ix = <<>>
    /\ next_enabled = NextEnabledPass(log, disabled)
    /\ applied = NoFilters
    /\ parse_state = NoLines

\* the engine reapplies the stack: mask reset to all enabled, all visible,
\* then every filter in order
ApplyFilters(stack, op) ==
    /\ status = "idle"
    /\ disabled' = reset_disabled_to(log, {})
    /\ next_enabled' = NextEnabledPass(log, disabled')
    /\ IF \A k \in DOMAIN stack : Filter_ok(log, stack[k])
       THEN /\ hidden' = apply_filters(log, part_of_ml, stack)
            /\ applied' = [filters |-> stack,
                           outputs |-> [k \in 1..Len(stack) |->
                               FilterOutputOf(log,
                                   apply_filters(log, part_of_ml, SubSeq(stack, 1, k - 1)),
                                   part_of_ml, stack[k])]]
            /\ status' = "idle"
            /\ ret' = [op |-> op, n |-> Len(stack), g |-> NoGraph]
       ELSE \* an unwrap panicked inside Filter::apply: the filters before it
            \* have acted, no output is returned
            LET bad == Min({k \in DOMAIN stack : ~Filter_ok(log, stack[k])})
            IN /\ hidden' = apply_filters(log, part_of_ml, SubSeq(stack, 1, bad - 1))
               /\ applied' = [applied EXCEPT !.filters = stack]
               /\ status' = "aborted"
               /\ ret' = [op |-> "panic", n |-> bad, g |-> NoGraph]
    /\ UNCHANGED <<log, hash_order, part_of_ml, ml_end_nodes, ml_graphs,
                   graph, discovered, subgraphs, node_ix, parse_state>>

\* a filter is added on top of the stack
AddFilter(f) ==
    /\ Len(applied.filters) < MaxStack
    /\ ApplyFilters(Append(applied.filters, f), "add_filter")

\* the same stack is applied once more
Reapply == ApplyFilters(applied.filters, "reapply")

\* the two filters of the stack are applied in the other order
SwapFilters ==
    /\ Len(applied.filters) = 2
    /\ ApplyFilters(<<applied.filters[2], applied.filters[1]>>, "swap")

FiltersNext ==
    \/ search_matching_loops
    \/ \E f \in Catalogue : AddFilter(f)
    \/ Reapply
    \/ SwapFilters

SpecFilters == FiltersInit /\ [][FiltersNext]_vars

\* SpecPredicate: stacks of the filters that hide by a predicate of the
\* node, on a graph with and without computed depths
PredicateInit ==
    /\ log \in {FilterLog, UncomputedLog}
    /\ hash_order \in HashOrders(log)
    /\ disabled = [v \in RawNodes(log) |-> FALSE]
    /\ hidden = [v \in RawNodes(log) |-> FALSE]
    /\ part_of_ml = [v \in RawNodes(log) |-> {}]
    /\ ml_end_nodes = <<>>
    /\ ml_graphs = <<>>
    /\ status = "idle"
    /\ ret = NoRet
    /\ graph = {}
    /\ discovered = {}
    /\ subgraphs = <<>>
    /\ node_ix = <<>>
    /\ next_enabled = NextEnabledPass(log, disabled)
    /\ applied = NoFilters
    /\ parse_state = NoLines

SpecPredicate ==
    PredicateInit
    /\ [][\/ \E f \in {x \in Catalogue :
                         x.tag \in {"MaxNodeIdx", "IgnoreTheorySolving", "IgnoreQuantifier",
                                    "IgnoreAllButQuantifier", "MaxDepth"}} : AddFilter(f)
          \/ Reapply]_vars

(***************************************************************************)
(* SpecParse: LogParser::process_line.  A line is the sequence of its      *)
(* whitespace-separated tokens.  parse_state counts the lines read, keeps  *)
(* the line read last, counts the handler calls and names the last one,    *)
(* keeps the Option the last dispatch gave, counts the lines reported as   *)
(* errors, and keeps what process_line returned last.                      *)
(***************************************************************************)
\* the handler the match of process_line calls for a header; "" where it
\* calls none (`"[eof]" => return false` and `_ => None`)
HandlerOf(header) ==
    CASE header = "[tool-version]" -> "version_info"
      [] header \in {"[mk-quant]", "[mk-lambda]"} -> "mk_quant"
      [] header = "[mk-var]" -> "mk_var"
      [] header \in {"[mk-proof]", "[mk-app]"} -> "mk_proof_app"
      [] header = "[attach-meaning]" -> "attach_meaning"
      [] header = "[attach-var-names]" -> "attach_var_names"
      [] header = "[attach-enode]" -> "attach_enode"
      [] header = "[eq-expl]" -> "eq_expl"
      [] header = "[new-match]" -> "new_match"
      [] header = "[inst-discovered]" -> "inst_discovered"
      [] header = "[instance]" -> "instance"
      [] header = "[end-of-instance]" -> "end_of_instance"
      [] header = "[decide-and-or]" -> "decide_and_or"
      [] header = "[decide]" -> "decide"
      [] header = "[assign]" -> "assign"
      [] header = "[push]" -> "push"
      [] header = "[pop]" -> "pop"
      [] header = "[begin-check]" -> "begin_check"
      [] header = "[query-done]" -> "query_done"
      [] header = "[resolve-process]" -> "resolve_process"
      [] header = "[resolve-lit]" -> "resolve_lit"
      [] header = "[conflict]" -> "conflict"
      [] OTHER -> ""

\* the methods of Z3LogParser with a default body, which returns DEFAULT
DefaultHandlers ==
    {"decide_and_or", "decide", "assign", "push", "pop", "begin_check", "query_done",
     "resolve_process", "resolve_lit", "conflict"}

\* the Option<()> bound to `parse`: a default method gives Some(()), any
\* other handler what its implementation decides, no handler gives None
ParseOf(header, outcome) ==
    IF HandlerOf(header) = "" THEN "None"
    ELSE IF HandlerOf(header) \in DefaultHandlers THEN "Some"
    ELSE outcome

\* mutant: a failed parse ends the load
ReturnedStopOnError(header, parse) == header # "[eof]" /\ parse = "Some"

\* what process_line returns
Returned(header, parse) == header # "[eof]"

Headers ==
    {"[tool-version]", "[mk-quant]", "[mk-lambda]", "[mk-var]", "[mk-proof]", "[mk-app]",
     "[attach-meaning]", "[attach-var-names]", "[attach-enode]", "[eq-expl]",
     "[new-match]", "[inst-discovered]", "[instance]", "[end-of-instance]",
     "[decide-and-or]", "[decide]", "[assign]", "[push]", "[pop]", "[begin-check]",
     "[query-done]", "[eof]", "[resolve-process]", "[resolve-lit]", "[conflict]"}

\* the lines fed: every header alone, a header with an argument, two
\* headers the match does not know, and a line without any token
Lines ==
    {<<h>> : h \in Headers}
    \cup {<<"[mk-app]", "#1">>, <<"[unknown]">>, <<"eof">>, <<>>}

ParseInit ==
    /\ graph = {}
    /\ discovered = {}
    /\ subgraphs = <<>>
    /\ node_ix = <<>>
    /\ log = EmptyLog
    /\ hash_order = <<>>
    /\ disabled = <<>>
    /\ hidden = <<>>
    /\ part_of_ml = <<>>
    /\ ml_end_nodes = <<>>
    /\ ml_graphs = <<>>
    /\ status = "idle"
    /\ ret = NoRet
    /\ next_enabled = NoNextEnabled
    /\ applied = NoFilters
    /\ parse_state = NoLines

\* LogParser::process_line(line, line_no); outcome is what the handler of a
\* recognised header returns
process_line(line, outcome) ==
    /\ status = "idle"
    /\ parse_state.continue
    /\ parse_state.lines < MaxLines
    /\ IF line = <<>>
       THEN \* split.next().unwrap() on a line without tokens
            /\ status' = "aborted"
            /\ ret' = [op |-> "panic", n |-> -1, g |-> NoGraph]
            /\ parse_state' = [parse_state EXCEPT !.lines = @ + 1, !.line = line]
       ELSE LET header == line[1]
                handler == HandlerOf(header)
                parse == ParseOf(header, outcome)
            IN /\ status' = "idle"
               /\ ret' = [op |-> "process_line", n |-> parse_state.lines + 1, g |-> NoGraph]
               /\ IF header = "[eof]"
                  THEN parse_state' = [parse_state EXCEPT
                           !.lines = @ + 1, !.line = line, !.parse = "",
                           !.continue = Returned(header, "")]
                  ELSE parse_state' = [parse_state EXCEPT
                           !.lines = @ + 1, !.line = line,
                           !.calls = IF handler = "" THEN @ ELSE @ + 1,
                           !.last = IF handler = "" THEN @ ELSE handler,
                           !.parse = parse,
                           !.reported = IF parse = "None" THEN @ + 1 ELSE @,
                           !.continue = Returned(header, parse)]
    /\ UNCHANGED <<graph, discovered, subgraphs, node_ix, log, hash_order, disabled,
                   hidden, part_of_ml, ml_end_nodes, ml_graphs, next_enabled, applied>>

\* LogParser::end_of_file, called once the lines are exhausted or
\* process_line returned false
end_of_file ==
    /\ status = "idle"
    /\ parse_state.last # "eof"
    /\ ~parse_state.continue \/ parse_state.lines = MaxLines
    /\ parse_state' = [parse_state EXCEPT !.calls = @ + 1, !.last = "eof", !.continue = FALSE]
    /\ ret' = [op |-> "end_of_file", n |-> parse_state.lines, g |-> NoGraph]
    /\ UNCHANGED <<graph, discovered, subgraphs, node_ix, log, hash_order, disabled,
                   hidden, part_of_ml, ml_end_nodes, ml_graphs, status, next_enabled,
                   applied>>

ParseNext ==
    \/ \E line \in Lines, outcome \in {"Some", "None"} : process_line(line, outcome)
    \/ end_of_file

SpecParse == ParseInit /\ [][ParseNext]_vars

(***************************************************************************)
(* SpecBlame: Match::trigger_matches and the accessors of Blame on the     *)
(* blamed sequence of the one match of a log.  ret.g lists, per Blame, its *)
(* slice, its equalities_len and the values of Blame[0], Blame[1], ...     *)
(***************************************************************************)
\* Blame::equalities_len
equalities_len(slice) == Len(slice) - 1

\* the outcome of unwrap_eq on an entry that is no Equality: the panic
\* "expected equality"
PanicExpectedEquality == -1

\* <Blame as Index<usize>>::index: self.slice[idx + 1].unwrap_eq()
Blame_index(slice, idx) ==
    IF slice[idx + 2].tag = "Equality" THEN slice[idx + 2].id ELSE PanicExpectedEquality

\* every blamed sequence of up to MaxBlamed entries over two e-nodes and two
\* equalities
BlamedSeqs ==
    UNION {[1..k -> {[tag |-> t, id |-> x] : t \in {"Term", "Equality"}, x \in 1..2}] :
              k \in 0..MaxBlamed}

BlameInit ==
    /\ graph = {}
    /\ discovered = {}
    /\ subgraphs = <<>>
    /\ node_ix = <<>>
    /\ \E b \in BlamedSeqs : log = [EmptyLog EXCEPT !.n = 1, !.blamed = <<b>>]
    /\ hash_order = <<>>
    /\ disabled = <<>>
    /\ hidden = <<>>
    /\ part_of_ml = <<>>
    /\ ml_end_nodes = <<>>
    /\ ml_graphs = <<>>
    /\ status = "idle"
    /\ ret = NoRet
    /\ next_enabled = NoNextEnabled
    /\ applied = NoFilters
    /\ parse_state = NoLines

\* a caller collects match_.trigger_matches() and reads every Blame
CollectTriggerMatches ==
    /\ status = "idle"
    /\ ret.op = "init"
    /\ LET blamed == log.blamed[1]
           tm == trigger_matches(blamed)
           blames == [k \in 1..Len(tm) |->
                        LET slice == BlameSlice(blamed, tm[k])
                        IN [slice |-> slice,
                            equalities_len |-> equalities_len(slice),
                            index |-> [i \in 1..equalities_len(slice) |->
                                          Blame_index(slice, i - 1)]]]
       IN IF \A k \in 1..Len(tm) : PanicExpectedEquality \notin Range(blames[k].index)
          THEN /\ status' = "idle"
               /\ ret' = [op |-> "trigger_matches", n |-> Len(tm), g |-> blames]
          ELSE \* unwrap_eq panicked while a Blame was read
               /\ status' = "aborted"
               /\ ret' = [op |-> "panic", n |-> -1, g |-> NoGraph]
    /\ UNCHANGED <<graph, discovered, subgraphs, node_ix, log, hash_order, disabled,
                   hidden, part_of_ml, ml_end_nodes, ml_graphs, next_enabled,
                   applied, parse_state>>

SpecBlame == BlameInit /\ [][CollectTriggerMatches]_vars

(***************************************************************************)
(* Reference notions for the partitioning claims, defined from the edge    *)
(* set alone.                                                              *)
(***************************************************************************)
RECURSIVE ReachSet(_, _)
ReachSet(E, S) ==
    LET S2 == S \cup {e[2] : e \in {x \in E : x[1] \in S}}
    IN IF S2 = S THEN S ELSE ReachSet(E, S2)

HasPath(E, u, v) == v \in ReachSet(E, {u})
WeakComponent(E, v) == ReachSet(E \cup {<<e[2], e[1]>> : e \in E}, {v})
LocalIxs(sg) == 0..(Len(sg.nodes) - 1)

\* C2: in every subgraph built by Subgraph::new, reach_fwd[i] is exactly the
\* set of local indices reachable from i by a directed path of length >= 0,
\* and reach_bwd[i] exactly the set of local indices that can reach i.
C2_ReachExact ==
    \A k \in DOMAIN subgraphs :
        LET sg == subgraphs[k] IN
        \A i \in LocalIxs(sg) :
            /\ sg.reach_fwd.rows[i + 1] =
                   {j \in LocalIxs(sg) : HasPath(graph, sg.nodes[i + 1], sg.nodes[j + 1])}
            /\ sg.reach_bwd.rows[i + 1] =
                   {j \in LocalIxs(sg) : HasPath(graph, sg.nodes[j + 1], sg.nodes[i + 1])}

\* a subgraph in which some row holds an index reached only through an
\* intermediate node
C2_Witness ==
    \E k \in DOMAIN subgraphs :
        LET sg == subgraphs[k] IN
        \E i, j \in LocalIxs(sg) :
            /\ i # j
            /\ j \in sg.reach_fwd.rows[i + 1]
            /\ i \in sg.reach_bwd.rows[j + 1]
            /\ <<sg.nodes[i + 1], sg.nodes[j + 1]>> \notin graph

\* C3: within a subgraph, reach_fwd[i_u] contains i_v iff reach_bwd[i_v]
\* contains i_u.
C3_Converse ==
    \A k \in DOMAIN subgraphs :
        LET sg == subgraphs[k] IN
        \A iu, iv \in LocalIxs(sg) :
            InTransitiveClosure(sg.reach_fwd, iu, iv)
                <=> InTransitiveClosure(sg.reach_bwd, iv, iu)

\* a subgraph with a node that has two children, each in the other's closure
C3_Witness ==
    \E k \in DOMAIN subgraphs :
        LET sg == subgraphs[k] IN
        \E iu, iv, iw \in LocalIxs(sg) :
            /\ iu # iv /\ iu # iw /\ iv # iw
            /\ InTransitiveClosure(sg.reach_fwd, iu, iv)
            /\ InTransitiveClosure(sg.reach_fwd, iu, iw)
            /\ InTransitiveClosure(sg.reach_bwd, iv, iu)
            /\ InTransitiveClosure(sg.reach_bwd, iw, iu)

Occurrences(v) ==
    {<<k, i>> \in (DOMAIN subgraphs) \X (1..SubN) :
        i \in DOMAIN subgraphs[k].nodes /\ subgraphs[k].nodes[i] = v}

\* C4: after every completed call, each discovered node occurs in exactly one
\* subgraph, exactly once; that subgraph holds all and only the nodes of the
\* node's weakly-connected component; the local index written on the node is
\* its position.  Once every node is discovered this is the partition.
C4_Partition ==
    status = "idle" =>
        \A v \in discovered :
            /\ Cardinality(Occurrences(v)) = 1
            /\ \A o \in Occurrences(v) :
                /\ Range(subgraphs[o[1]].nodes) = WeakComponent(graph, v)
                /\ node_ix[v] = <<o[1] - 1, o[2] - 1>>

\* the partition is complete, with several subgraphs, one of them of a
\* component that has two roots
C4_Witness ==
    /\ discovered = SubNodes
    /\ status = "idle"
    /\ Len(subgraphs) >= 2
    /\ \E k \in DOMAIN subgraphs :
          Cardinality({v \in Range(subgraphs[k].nodes) : Parents(graph, v) = {}}) >= 2

(***************************************************************************)
(* Reference notions for the matching-loop claims                          *)
(***************************************************************************)
\* the matching-loop subgraph of the loaded log, rebuilt from the log alone
MlSubgraphOf(l) ==
    LET dis == [v \in RawNodes(l) |-> ~IsInst(v)]
    IN to_visible_simplified(l, dis, ml_hidden(l, dis))

\* the number K the last search returned
FoundK == Len(ml_end_nodes[1])

\* every sequence that lists the members of S once
OrdersOf(S) ==
    {o \in [1..Cardinality(S) -> S] : \A i, j \in 1..Cardinality(S) : i # j => o[i] # o[j]}

\* C1: when search_matching_loops returns, disabled(v) of every raw node is
\* what it was immediately before the call.
C1_DisabledRestored ==
    [][(ret'.op = "search" /\ status' = "idle") => disabled' = disabled]_vars

\* a search has returned on a graph in which some instantiations are disabled
\* and others are not
C1_Witness ==
    /\ ret.op = "search"
    /\ \E u, v \in RawNodes(log) :
          IsInst(u) /\ IsInst(v) /\ disabled[u] /\ ~disabled[v]

\* C5: after search_matching_loops has returned K, nth_matching_loop_graph(n)
\* returns a graph with at least one node iff n < K, the empty graph for
\* n >= K, and changes no state.
C5_NthGraph ==
    [][(ret'.op = "nth" /\ ml_end_nodes # <<>>) =>
          /\ (ret'.g.nodes # {}) <=> (ret'.n < FoundK)
          /\ ret'.n >= FoundK => ret'.g = NoGraph
          /\ UNCHANGED <<log, hash_order, disabled, hidden, part_of_ml,
                         ml_end_nodes, ml_graphs, status>>]_vars

\* the second of two loops was asked for and a graph with nodes came back
C5_Witness ==
    /\ ret.op = "nth"
    /\ ml_end_nodes # <<>>
    /\ FoundK = 2
    /\ ret.n = 1
    /\ ret.g.nodes # {}

\* C6: the ranked endpoint list holds exactly the out-degree-0 nodes of the
\* matching-loop subgraph, by maxDepth descending, endpoints of equal
\* maxDepth by lower raw index first.
C6_RankedEndpoints ==
    ret.op = "search" =>
        LET sub == MlSubgraphOf(log)
            L == ml_end_nodes[1]
        IN /\ Range(L) = {v \in Range(sub.nodes) : Children(sub.edges, v) = {}}
           /\ \A i, j \in DOMAIN L :
                 i < j =>
                    \/ max_depth(sub.edges, L[i]) > max_depth(sub.edges, L[j])
                    \/ /\ max_depth(sub.edges, L[i]) = max_depth(sub.edges, L[j])
                       /\ RawIx(log, L[i]) < RawIx(log, L[j])

\* C7: after search_matching_loops, n is in part_of_ml(v) iff v is the n-th
\* ranked endpoint or one of its ancestors in the matching-loop subgraph.
C7_PartOfMl ==
    ret.op = "search" =>
        LET sub == MlSubgraphOf(log)
            L == ml_end_nodes[1]
        IN \A v \in RawNodes(log) :
              /\ part_of_ml[v] \subseteq 0..(Len(L) - 1)
              /\ \A n \in 0..(Len(L) - 1) :
                    n \in part_of_ml[v] <=> HasPath(sub.edges, v, L[n + 1])

\* a search found a loop whose endpoint has an ancestor that is not its
\* parent, and another loop that those nodes are not part of
C7_Witness ==
    /\ ret.op = "search"
    /\ FoundK = 2
    /\ \E v \in RawNodes(log) :
          /\ part_of_ml[v] = {0}
          /\ v # ml_end_nodes[1][1]
          /\ <<v, ml_end_nodes[1][1]>> \notin MlSubgraphOf(log).edges

\* C8: a second search_matching_loops right after a first returns the same
\* K and leaves every part_of_ml set and every stored graph as it was.
C8_Idempotent ==
    [][(ret.op = "search" /\ ret'.op = "search") =>
          /\ ret'.n = ret.n
          /\ part_of_ml' = part_of_ml
          /\ ml_graphs' = ml_graphs]_vars

\* a search has returned two loops, one of them with several nodes
C8_Witness ==
    /\ ret.op = "search"
    /\ ret.n = 2
    /\ Len(ml_graphs) = 2
    /\ \E v \in RawNodes(log) : part_of_ml[v] = {0} /\ v # ml_end_nodes[1][1]

\* C9: the abstract graph of the n-th loop is the same for every order in
\* which the loop's nodes are visited and merged, the creator of each
\* matched-term slot included.
C9_OrderIndependent ==
    ret.op = "search" =>
        \A n \in DOMAIN ml_graphs :
            \A o \in OrdersOf({v \in RawNodes(log) : (n - 1) \in part_of_ml[v]}) :
                ml_graph_in_order(log, o) = ml_graphs[n]

\* the log is a chain i1 -> ... -> in of one quantifier and pattern in which
\* each instantiation after the first blames exactly one e-node, created by
\* the one before
IsChain(l) ==
    /\ l.n >= MIN_MATCHING_LOOP_LENGTH
    /\ \A i \in 1..l.n :
          /\ quant_idx(l, i) = quant_idx(l, 1)
          /\ pattern(l, i) = pattern(l, 1)
          /\ Len(l.blamed[i]) = 1
          /\ l.blamed[i][1].tag = "Term"
          /\ l.created_by[l.blamed[i][1].id] = i - 1

\* C10: on a chain of n >= 3 instantiations of one quantifier q and pattern,
\* search_matching_loops returns 1 and the graph of loop 0 is one QI(q, ..)
\* node, one ENode node and the two edges between them.
C10_ChainSelfLoop ==
    (ret.op = "search" /\ IsChain(log)) =>
        /\ ret.n = 1
        /\ Len(ml_graphs) = 1
        /\ \E qi, en \in ml_graphs[1].nodes :
              /\ qi.kind = "QI" /\ qi.quant = quant_idx(log, 1)
              /\ en.kind = "ENode"
              /\ ml_graphs[1].nodes = {qi, en}
              /\ ml_graphs[1].edges = {<<qi, en>>, <<en, qi>>}

\* a search has returned on a chain longer than the minimal loop length
C10_Witness ==
    /\ ret.op = "search"
    /\ IsChain(log)
    /\ log.n > MIN_MATCHING_LOOP_LENGTH

\* the instantiation nodes of some loop whose match lacks a pattern or a
\* quantifier
Patternless(l, pom) ==
    {v \in RawNodes(l) :
        /\ IsInst(v)
        /\ pom[v] # {}
        /\ (pattern(l, v[2]) = None \/ quant_idx(l, v[2]) = None)}

\* C11: whenever control is outside search_matching_loops, the stored end-node
\* list, part_of_ml and abstract graphs are all those from before the call or
\* all those of the completed call; found_matching_loops() = Some(K) implies
\* that exactly K graphs are stored, and the disabled set is the pre-call one.
C11_ConsistentResults ==
    [][/\ (ml_end_nodes' # <<>> => Len(ml_graphs') = Len(ml_end_nodes'[1]))
       /\ (ret'.op \in {"search", "panic"} =>
             /\ disabled' = disabled
             /\ \/ <<ml_end_nodes', part_of_ml', ml_graphs'>>
                      = <<ml_end_nodes, part_of_ml, ml_graphs>>
                \/ status' = "idle")]_vars

\* C19: an instantiation node of a loop whose match has no pattern or no
\* quantifier is skipped while the loop is folded: the search completes and
\* every stored graph is the one folded from the other nodes of its loop.
C19_SkipsPatternless ==
    (ret.op \in {"search", "panic"} /\ Patternless(log, part_of_ml) # {}) =>
        /\ status = "idle"
        /\ ret.op = "search"
        /\ \A n \in DOMAIN ml_graphs :
              ml_graphs[n] =
                  ml_graph_in_order(log,
                      SelectSeq(nodes_of_nth_matching_loop(log, part_of_ml, n - 1, hash_order),
                                LAMBDA v : v \notin Patternless(log, part_of_ml)))

RECURSIVE Through(_, _, _)
Through(E, mask, S) ==
    LET S2 == S \cup UNION {Children(E, x) : x \in {y \in S : mask[y]}}
    IN IF S2 = S THEN S ELSE Through(E, mask, S2)

Flip(E) == {<<e[2], e[1]>> : e \in E}

\* the nodes x with a path of length >= 1 from v to x along E all of whose
\* intermediate nodes satisfy the mask
PathsThrough(E, mask, v) == Through(E, mask, Children(E, v))

\* C20: after a NextEnabled pass over the disabled mask, enabled_parents(v) of
\* every raw node v is exactly the set of enabled nodes from which a raw path
\* of length >= 1 leads to v through disabled nodes only, and
\* enabled_children(v) the same for descendants; the sets hold enabled nodes
\* only, never v, and are empty for a node without parents (children).
C20_NextEnabled ==
    \A v \in RawNodes(log) :
        /\ next_enabled.parents[v] =
               {u \in PathsThrough(Flip(RawEdges(log)), disabled, v) : ~disabled[u]}
        /\ next_enabled.children[v] =
               {u \in PathsThrough(RawEdges(log), disabled, v) : ~disabled[u]}
        /\ \A u \in next_enabled.parents[v] \cup next_enabled.children[v] :
               ~disabled[u] /\ u # v
        /\ Parents(RawEdges(log), v) = {} => next_enabled.parents[v] = {}
        /\ Children(RawEdges(log), v) = {} => next_enabled.children[v] = {}

\* a disabled node has an enabled parent that is reached through two
\* disabled nodes in a row, and a child that is disabled
C20_Witness ==
    /\ ret.op = "reset_to"
    /\ \E v, a, b \in RawNodes(log) :
          /\ disabled[v] /\ disabled[a] /\ disabled[b]
          /\ <<b, a>> \in RawEdges(log) /\ <<a, v>> \in RawEdges(log)
          /\ next_enabled.parents[v] # {}
          /\ next_enabled.parents[v] \cap Parents(RawEdges(log), v) = {}
          /\ \E c \in Children(RawEdges(log), v) : disabled[c]

\* the masks under which search_matching_loops builds a visible graph: one
\* per quantifier, and the one that shows the loop nodes
SearchMasks(l) ==
    LET dis == [v \in RawNodes(l) |-> ~IsInst(v)]
    IN {[v \in RawNodes(l) |-> ~(IsInst(v) /\ quant_idx(l, v[2]) = q)] : q \in quants(l)}
       \cup {ml_hidden(l, dis)}

\* C15: in the visible graph built from the raw DAG and a mask, u -> v is an
\* edge iff u and v are visible and a raw path leads from u to v all of whose
\* intermediate nodes are hidden, also when the hidden nodes are not the
\* disabled ones (the NextEnabled sets follow the disabled mask).
C15_VisibleEdges ==
    ret.op = "search" =>
        \A hid \in SearchMasks(log) :
            LET dis == [v \in RawNodes(log) |-> ~IsInst(v)]
                vis == {v \in RawNodes(log) : ~hid[v]}
            IN to_visible_simplified(log, dis, hid).edges =
                   {e \in vis \X vis : e[2] \in PathsThrough(RawEdges(log), hid, e[1])}

\* C18: the numbering written by Subgraph::new is a topological order: the
\* ends of every edge u -> v are in one subgraph with local_ix(u) <
\* local_ix(v); so reach_fwd[i] holds indices >= i only, reach_bwd[i] indices
\* <= i only, and no closure loop indexes outside its remaining slice.
C18_TopoOrder ==
    /\ status # "aborted"
    /\ \A e \in graph :
          e[1] \in discovered =>
              /\ e[2] \in discovered
              /\ node_ix[e[1]][1] = node_ix[e[2]][1]
              /\ node_ix[e[1]][2] < node_ix[e[2]][2]
    /\ \A k \in DOMAIN subgraphs :
          \A i \in LocalIxs(subgraphs[k]) :
              /\ \A j \in subgraphs[k].reach_fwd.rows[i + 1] : j >= i
              /\ \A j \in subgraphs[k].reach_bwd.rows[i + 1] : j <= i

\* a subgraph was numbered in which a node with two parents has a parent
\* that is the child of the other one
C18_Witness ==
    \E k \in DOMAIN subgraphs :
        \E u, v, w \in Range(subgraphs[k].nodes) :
            /\ {<<u, v>>, <<u, w>>, <<v, w>>} \subseteq graph
            /\ node_ix[u][2] < node_ix[v][2]
            /\ node_ix[v][2] < node_ix[w][2]

\* C16: process_line returns true for every line whose first token is not
\* "[eof]": a line with an unknown header calls no handler and is skipped, a
\* recognised header whose handler fails is reported and the load goes on;
\* it returns false exactly for "[eof]", for which no handler is called.
C16_ProcessLine ==
    [][ret'.op = "process_line" =>
          LET header == parse_state'.line[1]
              nocall == /\ parse_state'.calls = parse_state.calls
                        /\ parse_state'.last = parse_state.last
          IN /\ parse_state'.continue <=> header # "[eof]"
             /\ header = "[eof]" => nocall /\ parse_state'.reported = parse_state.reported
             /\ (header # "[eof]" /\ header \notin Headers) =>
                    nocall /\ parse_state'.reported = parse_state.reported + 1
             /\ (header \in Headers \ {"[eof]"} /\ parse_state'.parse = "None") =>
                    /\ parse_state'.calls = parse_state.calls + 1
                    /\ parse_state'.reported = parse_state.reported + 1
                    /\ status' = "idle"]_vars

\* a handler failed on one line, the next line had an unknown header, and
\* the load still goes on
C16_Witness ==
    /\ ret.op = "process_line"
    /\ parse_state.line = <<"[unknown]">>
    /\ parse_state.last = "instance"
    /\ parse_state.reported = 2
    /\ parse_state.continue

\* the operations after which the mask is the one the stack gives
FilterOps == {"add_filter", "reapply", "swap"}

\* the stack without its ShowLongestPath filters
WithoutLongestPath(stack) == SelectSeq(stack, LAMBDA f : f.tag # "ShowLongestPath")

HidingFilters ==
    {"MaxNodeIdx", "IgnoreTheorySolving", "IgnoreQuantifier", "IgnoreAllButQuantifier",
     "VisitSourceTree", "VisitSubTreeWithRoot", "SelectNthMatchingLoop",
     "ShowMatchingLoopSubgraph"}

\* the filters that only unhide
UnhidingFilters == {"ShowNeighbours", "ShowNamedQuantifier"}

\* the pairs of filters the amended claim is about
CommutingPair(f, g) ==
    \/ {f.tag, g.tag} \subseteq HidingFilters
    \/ {f.tag, g.tag} \subseteq UnhidingFilters
    \/ {f.tag, g.tag} = {"MaxInsts"}
    \/ "ShowLongestPath" \in {f.tag, g.tag}

C30_BlankLineSkipped ==
    [][parse_state'.lines = parse_state.lines + 1 =>
          /\ status' = "idle"
          /\ ret'.op = "process_line"
          /\ parse_state'.line = <<>> =>
                /\ parse_state'.continue
                /\ parse_state'.calls = parse_state.calls
                /\ parse_state'.reported = parse_state.reported + 1]_vars

\* C29: search_matching_loops completes normally, returning K and restoring
\* the disabled set, also when a blamed e-node or equality of a loop
\* instantiation was created by an instantiation without pattern or
\* quantifier; here every instantiation of a loop has both itself.
C29_CreatorNeverAborts ==
    [][(ret'.op \in {"search", "panic"} /\ Patternless(log, part_of_ml') = {}) =>
          /\ status' = "idle"
          /\ ret'.op = "search"
          /\ disabled' = disabled]_vars

\* the positions (from 1) of the Term entries of a blamed sequence
TermPositions(blamed) == {k \in DOMAIN blamed : blamed[k].tag = "Term"}

\* C22: for a blamed sequence that is empty or starts with a Term,
\* trigger_matches yields one Blame per Term entry, in order; each slice
\* starts with its Term and goes on with the Equality entries up to the
\* next Term; the slices concatenated are the whole sequence;
\* equalities_len is the slice length minus one and Blame[i] is the i-th
\* equality after the e-node.
C22_TriggerMatches ==
    (/\ ret.op = "trigger_matches"
     /\ (log.blamed[1] = <<>> \/ log.blamed[1][1].tag = "Term")) =>
        LET blamed == log.blamed[1]
            pos == TermPositions(blamed)
        IN /\ ret.n = Cardinality(pos)
           /\ Len(ret.g) = ret.n
           /\ Concat([k \in 1..ret.n |-> ret.g[k].slice]) = blamed
           /\ \A k \in 1..ret.n :
                 LET start == CHOOSE x \in pos : Cardinality({y \in pos : y < x}) = k - 1
                     b == ret.g[k]
                 IN /\ b.slice # <<>>
                    /\ b.slice[1] = blamed[start]
                    /\ \A j \in 2..Len(b.slice) : b.slice[j].tag = "Equality"
                    /\ b.equalities_len = Len(b.slice) - 1
                    /\ \A i \in 0..(b.equalities_len - 1) :
                          b.index[i + 1] = blamed[start + 1 + i].id

\* a sequence Term, Equality, Equality, Term was split into a Blame with
\* two equalities and a Blame with none
C22_Witness ==
    /\ ret.op = "trigger_matches"
    /\ Len(log.blamed[1]) = 4
    /\ ret.n = 2
    /\ ret.g[1].equalities_len = 2
    /\ ret.g[1].index = <<1, 2>>
    /\ ret.g[2].equalities_len = 0

\* what the claim says a predicate filter keeps
Keeps(l, f, v) ==
    CASE f.tag = "MaxNodeIdx" -> v[2] - 1 <= f.n
      [] f.tag = "IgnoreTheorySolving" -> l.kind[v[2]] # "TheorySolving"
      [] f.tag = "IgnoreQuantifier" -> quant_idx(l, v[2]) # f.n
      [] f.tag = "IgnoreAllButQuantifier" -> quant_idx(l, v[2]) = f.n
      [] f.tag = "MaxDepth" ->
            v[2] \in l.no_depth \/ min_depth(InstEdges(l), v) <= f.n

\* C26: each predicate filter only hides: a visible node stays visible iff
\* the filter's predicate holds of it, no hidden node becomes visible, and
\* MaxDepth(d) does not abort, also on nodes whose minDepth was never
\* computed.
C26_PredicateFilters ==
    [][(ret'.op \in {"add_filter", "panic"} /\ ret.op \in {"init", "add_filter", "reapply"}) =>
          LET f == applied'.filters[Len(applied'.filters)]
          IN /\ status' = "idle"
             /\ \A v \in InstNodes(log) :
                   ~hidden'[v] <=> (~hidden[v] /\ Keeps(log, f, v))]_vars

\* C21: after a NextInsts pass, inst_parents(v) of every raw node v is
\* exactly the set of instantiations from which a raw path of length >= 1
\* leads to v with no instantiation strictly between, and inst_children(v)
\* the same for descendants.
C21_NextInsts ==
    ret.op = "next_insts" =>
        LET through == [x \in RawNodes(log) |-> ~IsInst(x)]
        IN \A v \in RawNodes(log) :
              /\ ret.g.parents[v] =
                    {u[2] : u \in {x \in PathsThrough(Flip(RawEdges(log)), through, v) :
                                      IsInst(x)}}
              /\ ret.g.children[v] =
                    {u[2] : u \in {x \in PathsThrough(RawEdges(log), through, v) :
                                      IsInst(x)}}

\* the pass has run on the log in which instantiation 3 blames an e-node of
\* instantiation 2 and an equality instantiation 1 gave rise to
C21_Witness ==
    /\ ret.op = "next_insts"
    /\ log = EqualityLog
    /\ ret.g.parents[RawInst(3)] = {1, 2}
    /\ ret.g.children[RawInst(1)] = {2, 3}
    /\ ret.g.parents[RawEq(1)] = {1}

\* no key and no slot of `old` is missing from `new`
SlotsKept(old, new) ==
    \A k \in DOMAIN old :
        /\ k \in DOMAIN new
        /\ DOMAIN old[k].matched_terms \subseteq DOMAIN new[k].matched_terms
        /\ DOMAIN old[k].equalities \subseteq DOMAIN new[k].equalities

\* one write of (term, creator) to matched_terms[n] of the abstract
\* instantiation `key` led from `old` to `new`
MatchedWrite(old, new, key, n, term, creator) ==
    /\ SlotsKept(old, new)
    /\ key \in DOMAIN new
    /\ n \in DOMAIN new[key].matched_terms
    /\ new[key].matched_terms[n] =
          IF key \in DOMAIN old /\ n \in DOMAIN old[key].matched_terms
          THEN [matched |-> generalise(old[key].matched_terms[n].matched, term),
                creator |-> creator]
          ELSE [matched |-> term, creator |-> creator]
    /\ \A k \in DOMAIN old :
          /\ new[k].equalities = old[k].equalities
          /\ \A m \in DOMAIN old[k].matched_terms :
                <<k, m>> # <<key, n>> => new[k].matched_terms[m] = old[k].matched_terms[m]

\* one write of (from, to, creators) to equalities[n] of the abstract
\* instantiation `key` led from `old` to `new`
EqualityWrite(old, new, key, n, from, to, creators) ==
    /\ SlotsKept(old, new)
    /\ key \in DOMAIN new
    /\ n \in DOMAIN new[key].equalities
    /\ new[key].equalities[n] =
          IF key \in DOMAIN old /\ n \in DOMAIN old[key].equalities
          THEN [from |-> generalise(old[key].equalities[n].from, from),
                to |-> generalise(old[key].equalities[n].to, to),
                creators |-> old[key].equalities[n].creators \cup creators]
          ELSE [from |-> from, to |-> to, creators |-> creators]
    /\ \A k \in DOMAIN old :
          /\ new[k].matched_terms = old[k].matched_terms
          /\ \A m \in DOMAIN old[k].equalities :
                <<k, m>> # <<key, n>> => new[k].equalities[m] = old[k].equalities[m]

\* the writes made while instantiation i is folded into abstract_insts are
\* each a first write or a generalising later write, and they lead to `after`
WritesOf(l, abstract_insts, i, after) ==
    LET key == <<quant_idx(l, i), pattern(l, i)>>
        slices == MatchedSlices(l, i)
        slots == EqualitySlots(slices)
        Am(m) == fold_matched_terms(l, abstract_insts, key, SubSeq(slices, 1, m), 0)
        Ae(m) == fold_equalities(l, Am(Len(slices)), key, SubSeq(slots, 1, m))
    IN /\ \A m \in 1..Len(slices) :
            LET e == BlameENode(slices[m])
                c == l.created_by[e]
            IN IF c = None THEN Am(m) = Am(m - 1)
               ELSE MatchedWrite(Am(m - 1), Am(m), key, m - 1, l.owner[e],
                                 <<quant_idx(l, c), pattern(l, c)>>)
       /\ \A m \in 1..Len(slots) :
            LET eq == slots[m].eq
                cs == Range(creator_insts(l, eq))
            IN IF cs = {} THEN Ae(m) = Ae(m - 1)
               ELSE EqualityWrite(Ae(m - 1), Ae(m), key, slots[m].slot,
                                  l.owner[l.eq_from[eq]], l.owner[l.eq_to[eq]], cs)
       /\ Ae(Len(slots)) = after

\* C23: during the fold of a loop's instantiations every write to a
\* matched-term slot either creates the slot with the blamed term and its
\* creator, or replaces the stored term by its generalisation with the new
\* term and the creator by the new one; every write to an equality slot
\* either creates it or generalises from and to and adds the creators; every
\* other slot stays as it was and none is removed.
C23_SlotsGrow ==
    ret.op = "search" =>
        \A n \in DOMAIN ml_graphs :
            LET nodes == nodes_of_nth_matching_loop(log, part_of_ml, n - 1, hash_order)
            IN \A p \in 0..(Len(nodes) - 1) :
                 IsInst(nodes[p + 1]) =>
                    WritesOf(log, fold_nodes(log, <<>>, SubSeq(nodes, 1, p)),
                             nodes[p + 1][2],
                             fold_nodes(log, <<>>, SubSeq(nodes, 1, p + 1)))

\* a search has folded a loop in which a matched-term slot holds a
\* generalised term and an equality slot has creators of two quantifiers
C23_Witness ==
    /\ ret.op = "search"
    /\ \E n \in DOMAIN ml_graphs :
          LET ai == fold_nodes(log, <<>>,
                        nodes_of_nth_matching_loop(log, part_of_ml, n - 1, hash_order))
          IN \E k \in DOMAIN ai :
                /\ \E m \in DOMAIN ai[k].matched_terms : ai[k].matched_terms[m].matched.open
                /\ \E m \in DOMAIN ai[k].equalities :
                      \E c, d \in ai[k].equalities[m].creators : c[1] # d[1]

\* the abstract instantiations the stored graph of loop n (1-based) was built from
AbstractInstsOf(n) ==
    fold_nodes(log, <<>>, nodes_of_nth_matching_loop(log, part_of_ml, n - 1, hash_order))

\* the pairs <<key, slot>> of the equality slots of abstract instantiations
StoredEqualities(ai) ==
    UNION {{<<k, ai[k].equalities[m]>> : m \in DOMAIN ai[k].equalities} : k \in DOMAIN ai}

\* C24: the Equality nodes of an abstract graph are the pairs (from, to) of
\* the stored equality slots with from # to; a slot with from = to gives no
\* node and no edge; an Equality node has an edge to the QI node of every
\* abstract instantiation that stores it and an edge from the QI node of each
\* of its creators.
C24_EqualityNodes ==
    ret.op = "search" =>
        \A n \in DOMAIN ml_graphs :
            LET g == ml_graphs[n]
                stored == StoredEqualities(AbstractInstsOf(n))
            IN /\ {x \in g.nodes : x.kind = "Equality"}
                    = {ML_Equality(s[2].from, s[2].to) :
                          s \in {x \in stored : x[2].from # x[2].to}}
               /\ \A s \in stored :
                     IF s[2].from = s[2].to
                     THEN /\ ML_Equality(s[2].from, s[2].to) \notin g.nodes
                          /\ \A e \in g.edges :
                                ML_Equality(s[2].from, s[2].to) \notin {e[1], e[2]}
                     ELSE /\ <<ML_Equality(s[2].from, s[2].to), QINodeOf(s[1])>> \in g.edges
                          /\ \A c \in s[2].creators :
                                /\ QINodeOf(c) \in g.nodes
                                /\ <<QINodeOf(c), ML_Equality(s[2].from, s[2].to)>>
                                       \in g.edges

\* a search has stored a graph with an Equality node between generalised
\* terms, built from abstract instantiations one of whose equality slots has
\* from = to
C24_Witness ==
    /\ ret.op = "search"
    /\ \E n \in DOMAIN ml_graphs :
          /\ \E x \in ml_graphs[n].nodes : x.kind = "Equality" /\ x.a.open /\ x.b.open
          /\ \E s \in StoredEqualities(AbstractInstsOf(n)) : s[2].from = s[2].to

\* the (quant, pattern) keys that the creator field of a matched term or the
\* creator set of an equality with from # to names
GraphCreators(ai) ==
    UNION {{ai[k].matched_terms[m].creator : m \in DOMAIN ai[k].matched_terms}
           \cup UNION {ai[k].equalities[m].creators :
                           m \in {x \in DOMAIN ai[k].equalities :
                                     ai[k].equalities[x].from # ai[k].equalities[x].to}} :
           k \in DOMAIN ai}

\* the keys that the creator set of any equality slot names
EqualityCreators(ai) ==
    UNION {UNION {ai[k].equalities[m].creators : m \in DOMAIN ai[k].equalities} :
           k \in DOMAIN ai}

\* the hash containers walked while the graph of ai is built, each with its
\* contents
GraphContainers(ai) ==
    LET ids == {<<"keys", <<0, 0>>, 0>>}
               \cup {<<"matched", k, 0>> : k \in DOMAIN ai}
               \cup {<<"equalities", k, 0>> : k \in DOMAIN ai}
               \cup UNION {{<<"creators", k, n>> : n \in DOMAIN ai[k].equalities} :
                              k \in DOMAIN ai}
    IN [c \in ids |->
           CASE c[1] = "keys" -> DOMAIN ai
             [] c[1] = "matched" -> DOMAIN ai[c[2]].matched_terms
             [] c[1] = "equalities" -> DOMAIN ai[c[2]].equalities
             [] c[1] = "creators" -> ai[c[2]].equalities[c[3]].creators]

\* every assignment of a sequence listing its contents once to each container
RECURSIVE WalksOf(_)
WalksOf(containers) ==
    IF DOMAIN containers = {} THEN {<<>>}
    ELSE LET c == CHOOSE x \in DOMAIN containers : TRUE
             rest == [x \in DOMAIN containers \ {c} |-> containers[x]]
         IN {MapPut(w, c, o) : w \in WalksOf(rest), o \in OrdersOf(containers[c])}

GraphWalks(ai) == WalksOf(GraphContainers(ai))

\* the graph built from ai in the given iteration order is the stored graph
\* g, no node weight and no edge occurs twice in it, its ENode nodes are the
\* generalised matched terms, every edge joins a QI node and an ENode or
\* Equality node, and every ENode node has an edge from the QI node of a
\* creator and an edge to the QI node of an abstract instantiation
WellBuilt(ai, o, g) ==
    LET b == ml_graph_built(ai, o)
        w(nx) == b.nodes[nx + 1]
    IN /\ g = [nodes |-> Range(b.nodes),
               edges |-> {<<w(e[1]), w(e[2])>> : e \in Range(b.edges)}]
       /\ \A i, j \in DOMAIN b.nodes : i # j => b.nodes[i] # b.nodes[j]
       /\ \A i, j \in DOMAIN b.edges : i # j => b.edges[i] # b.edges[j]
       /\ {x \in g.nodes : x.kind = "ENode"}
            = UNION {{ML_ENode(ai[k].matched_terms[m].matched) :
                         m \in DOMAIN ai[k].matched_terms} : k \in DOMAIN ai}
       /\ \A e \in g.edges :
             \/ e[1].kind = "QI" /\ e[2].kind \in {"ENode", "Equality"}
             \/ e[1].kind \in {"ENode", "Equality"} /\ e[2].kind = "QI"
       /\ \A x \in g.nodes :
             x.kind = "ENode" =>
                \E k \in DOMAIN ai :
                   \E m \in DOMAIN ai[k].matched_terms :
                      /\ ai[k].matched_terms[m].matched = x.a
                      /\ <<x, QINodeOf(k)>> \in g.edges
                      /\ <<QINodeOf(ai[k].matched_terms[m].creator), x>> \in g.edges

\* the QI nodes of g are one node for each of the keys
OneQIPerKey(g, keys) ==
    /\ {x \in g.nodes : x.kind = "QI"} = {QINodeOf(k) : k \in keys}
    /\ Cardinality({x \in g.nodes : x.kind = "QI"}) = Cardinality(keys)

\* C25, as stated: every stored abstract graph is simple with deduplicated
\* nodes and has exactly one QI node per key that is an abstract
\* instantiation or occurs as a creator, the creators of every equality slot
\* included.
C25_EveryCreatorHasQI ==
    ret.op = "search" =>
        \A n \in DOMAIN ml_graphs :
            LET ai == AbstractInstsOf(n)
            IN /\ \A o \in GraphWalks(ai) : WellBuilt(ai, o, ml_graphs[n])
               /\ OneQIPerKey(ml_graphs[n],
                              DOMAIN ai \cup GraphCreators(ai) \cup EqualityCreators(ai))

\* C25, amended: every stored abstract graph is simple with deduplicated
\* nodes and has exactly one QI node per key that is an abstract
\* instantiation, the creator of a matched term, or a creator of an equality
\* slot with from # to; one ENode node per generalised term; every edge joins
\* a QI node and an ENode or Equality node, and every ENode node has a
\* creator edge in and an edge out to the QI node that matched it.
C25_SimpleGraph ==
    ret.op = "search" =>
        \A n \in DOMAIN ml_graphs :
            LET ai == AbstractInstsOf(n)
            IN /\ \A o \in GraphWalks(ai) : WellBuilt(ai, o, ml_graphs[n])
               /\ OneQIPerKey(ml_graphs[n], DOMAIN ai \cup GraphCreators(ai))

\* a search has stored a graph with a QI node of a key that is no abstract
\* instantiation, built from abstract instantiations two of whose equality
\* slots hold the same pair and one of whose equality slots has from = to and
\* a creator that has no QI node
C25_Witness ==
    /\ ret.op = "search"
    /\ \E n \in DOMAIN ml_graphs :
          LET ai == AbstractInstsOf(n)
          IN /\ GraphCreators(ai) \ DOMAIN ai # {}
             /\ \E k \in DOMAIN ai :
                   \E i, j \in DOMAIN ai[k].equalities :
                      /\ i # j
                      /\ ai[k].equalities[i].from # ai[k].equalities[i].to
                      /\ ai[k].equalities[i].from = ai[k].equalities[j].from
                      /\ ai[k].equalities[i].to = ai[k].equalities[j].to
             /\ \E c \in EqualityCreators(ai) : QINodeOf(c) \notin ml_graphs[n].nodes

\* C27: when search_matching_loops returns, a raw node is visible exactly if
\* it is in M, the union of the matching-loop node sets of the quantifiers,
\* and K is the number of end nodes of the subgraph of M: both are given by
\* the log alone, whatever mask the filters had left before the call.
C27_MaskFromLoops ==
    [][ret'.op = "search" =>
          LET dis == [v \in RawNodes(log) |-> ~IsInst(v)]
              M == ml_nodes(log, dis)
              hid == [v \in RawNodes(log) |-> v \notin M]
          IN /\ hidden' = hid
             /\ \E ends \in matching_loop_end_nodes(to_visible_simplified(log, dis, hid)) :
                   ret'.n = Len(ends)]_vars

\* a search has returned after a stack of filters had been applied whose
\* mask is not the one the search left
C27_Witness ==
    /\ ret.op = "search"
    /\ applied.filters # <<>>
    /\ \E v \in RawNodes(log) : ~hidden[v]
    /\ \E v \in RawNodes(log) :
          hidden[v] # apply_filters(log, [x \in RawNodes(log) |-> {}],
                                    applied.filters)[v]

\* C28: for every instantiation folded into a loop's abstract instantiations,
\* two blamed equalities with creators that stand at different places
\* (trigger position, index within the position) are written to different
\* equality slots.
C28_SlotPerPosition ==
    ret.op = "search" =>
        \A v \in RawNodes(log) :
            (IsInst(v) /\ part_of_ml[v] # {}) =>
                LET slots == EqualitySlots(MatchedSlices(log, v[2]))
                IN \A a, b \in DOMAIN slots :
                      (/\ a # b
                       /\ creator_insts(log, slots[a].eq) # <<>>
                       /\ creator_insts(log, slots[b].eq) # <<>>)
                          => slots[a].slot # slots[b].slot

====
